---- MODULE Spec2Model ----
(***************************************************************************)
(* OBEX client session layer (client/session.c) with the MAP front-end     *)
(* callbacks of client/map.c.                                              *)
(*                                                                         *)
(* Spec          session bring-up, reference counting and the registry     *)
(* SpecTransfer  transfer admission and the pending queue of a READY       *)
(*               session                                                   *)
(***************************************************************************)
EXTENDS Integers, Sequences, FiniteSets, TLC

(* ------------------------------ bounds --------------------------------- *)
MaxSessions == 2
MaxRequests == 2
MaxTransfers == 2
MaxDup == 1
CbSat == 2
TransferSize == 2
MaxPaths == 3

(* ------------------------------ values --------------------------------- *)
NULL == "NULL"
NoSession == 0
Sess == 1..MaxSessions
Req == 1..MaxRequests
Trans == 1..MaxTransfers

Sources == {NULL}
Destinations == {NULL, "d1"}
Services == {"MAP", "XXX"}
Channels == {0, 1}
Owners == {NULL}
Args == [source : Sources, destination : Destinations, service : Services,
         channel : Channels, owner : Owners]

\* the channel an SDP record yields (sdp_get_proto_port > 0)
FoundChannel == 1

\* counter is the static counter of session.c; paths is a history variable,
\* the values obc_session_register has given to session->path, in order
VARIABLES session, sessions, req, transfer, conts, counter, paths, last

\* folder is the record of one SetPath of the phonebook plugin: the arguments
\* of phonebook_set_folder and what it computed and returned
VARIABLE folder

vars == <<session, sessions, req, transfer, conts, counter, paths, last,
          folder>>

(* ------------------------------ records -------------------------------- *)
NoCallback == [func |-> NULL, data |-> 0]

\* struct obc_session; handshake and nfree are history fields: the state of
\* the OBEX CONNECT exchange of the handle and the number of runs of
\* session_free on the object. map is the struct map_data that map_probe
\* registers for the session; nprobe and nremove are history fields: the
\* number of probes of the driver that succeeded and the number of calls of
\* its remove hook.
NoSess ==
    [alloc |-> "none", refcount |-> 0, src |-> NULL, dst |-> NULL,
     driver |-> NULL, channel |-> 0, owner |-> NULL, watch |-> FALSE,
     adapter |-> FALSE, obex |-> NULL, io |-> NULL, pending_calls |-> {},
     pending |-> <<>>, callback |-> NoCallback, agent |-> NULL,
     agent_path |-> NULL, msg |-> 0,
     handshake |-> "none", nfree |-> 0, path |-> NULL, map |-> FALSE,
     nprobe |-> 0, nremove |-> 0, ngrant |-> 0, nrelease |-> 0]

NoArgs == [source |-> NULL, destination |-> NULL, service |-> NULL,
           channel |-> 0, owner |-> NULL]

\* struct callback_data of one obc_session_create request, with the position
\* of its continuation (pc), the caller's reference (held) and the history of
\* its completion callback (ncb, err, failed).
NoReq ==
    [pc |-> "free", session |-> NoSession, args |-> NoArgs, held |-> FALSE,
     ncb |-> 0, err |-> NULL, failed |-> NULL]

NoTransfer ==
    [st |-> "none", session |-> NoSession, op |-> NULL, started |-> "no",
     ended |-> FALSE, ncb |-> 0, path |-> NULL, nreply |-> 0, from |-> 0]

ContKeys == [t : Trans, kind : {"idle", "agent"}, cb : {"get", "put"}]

World == [session |-> session, sessions |-> sessions, req |-> req,
          transfer |-> transfer, conts |-> conts, counter |-> counter,
          paths |-> paths]

Commit(W, l) ==
    /\ session' = W.session
    /\ sessions' = W.sessions
    /\ req' = W.req
    /\ transfer' = W.transfer
    /\ conts' = W.conts
    /\ counter' = W.counter
    /\ paths' = W.paths
    /\ last' = l
    /\ UNCHANGED folder

\* a C string is the sequence of its characters; NullStr is the null pointer
NullStr == <<NULL>>

NoSetFolder ==
    [pc |-> "none", current_folder |-> NullStr, new_folder |-> NullStr,
     flags |-> 0, computed |-> NullStr, path |-> NullStr, err |-> "0",
     up |-> NullStr, uperr |-> "0"]

\* the record of a step that is no API call
Event == [op |-> "event", on |-> 0, id |-> 0, ret |-> "none"]

Sat(n) == IF n + 1 > CbSat THEN CbSat ELSE n + 1

(* --------------------------- list helpers ------------------------------ *)
RECURSIVE g_slist_remove(_, _)
g_slist_remove(l, x) ==
    IF l = <<>> THEN <<>>
    ELSE IF Head(l) = x THEN Tail(l)
    ELSE <<Head(l)>> \o g_slist_remove(Tail(l), x)

g_slist_prepend(l, x) == <<x>> \o l

InList(l, x) == \E i \in 1..Len(l) : l[i] = x

(* ----------------------- reference counting ---------------------------- *)
obc_session_ref_none(W, s) == W

obc_session_ref(W, s) == [W EXCEPT !.session[s].refcount = @ + 1]

RECURSIVE obc_session_unref(_, _)

\* map.c: map_free, the destroy function of the MAP interface
map_free(W, s) == obc_session_unref([W EXCEPT !.session[s].map = FALSE], s)

\* map.c: map_remove; g_dbus_unregister_interface calls the destroy function
\* of an interface that is registered
map_remove(W, s) == IF W.session[s].map THEN map_free(W, s) ELSE W

session_unregistered_quiet(W, s) == [W EXCEPT !.session[s].path = NULL]

\* session_unregistered: the remove hook of the driver, then the path is
\* cleared and the session interface unregistered (its destroy function is
\* the caller's)
session_unregistered(W, s) ==
    LET W1 == map_remove([W EXCEPT !.session[s].nremove = @ + 1], s)
    IN [W1 EXCEPT !.session[s].path = NULL]

session_free_registered(W, s) ==
    LET calls == W.session[s].pending_calls
        W1 == IF W.session[s].path # NULL THEN session_unregistered(W, s)
              ELSE W
    IN
    [W1 EXCEPT
       !.req = [r \in Req |->
                  IF r \in calls THEN [W1.req[r] EXCEPT !.pc = "cancelled"]
                  ELSE W1.req[r]],
       !.session[s] = [NoSess EXCEPT
                          !.alloc = "freed",
                          !.refcount = W1.session[s].refcount,
                          !.nfree = W1.session[s].nfree + 1,
                          !.nprobe = W1.session[s].nprobe,
                          !.nremove = W1.session[s].nremove,
                          !.ngrant = W1.session[s].ngrant,
                          !.nrelease = W1.session[s].nrelease]]

\* session_free: cancels the outstanding management calls (their replies are
\* never delivered), drops the agent, the watch, the handle and the stream,
\* unregisters a registered session, leaves the registry and releases the
\* object: of a released object only the history (the count it was released
\* with, nfree, nprobe, nremove, ngrant, nrelease) is kept.
session_free(W, s) ==
    LET calls == W.session[s].pending_calls
        W1 == IF W.session[s].path # NULL THEN session_unregistered(W, s)
              ELSE W
    IN
    [W1 EXCEPT
       !.req = [r \in Req |->
                  IF r \in calls THEN [W1.req[r] EXCEPT !.pc = "cancelled"]
                  ELSE W1.req[r]],
       !.session[s] = [NoSess EXCEPT
                          !.alloc = "freed",
                          !.refcount = W1.session[s].refcount,
                          !.nfree = W1.session[s].nfree + 1,
                          !.nprobe = W1.session[s].nprobe,
                          !.nremove = W1.session[s].nremove,
                          !.ngrant = W1.session[s].ngrant,
                          !.nrelease = W1.session[s].nrelease],
       !.sessions = g_slist_remove(W1.sessions, s)]

dec_and_test_early(rc) == rc - 1 <= 1

\* g_atomic_int_dec_and_test: TRUE when the decremented count is zero
dec_and_test(rc) == rc - 1 = 0

\* obc_session_unref, lines 279-283: the ReleaseSession notification to the
\* adapter of the session; without adapter path no message can be built
release_session(W, s) ==
    IF W.session[s].adapter
    THEN [W EXCEPT !.session[s].nrelease = @ + 1]
    ELSE W

obc_session_unref(W, s) ==
    LET W1 == [W EXCEPT !.session[s].refcount = @ - 1] IN
    IF dec_and_test(W.session[s].refcount)
    THEN session_free(release_session(W1, s), s)
    ELSE W1

(* ------------------------------ registry ------------------------------- *)
session_match_strict(sv, a) ==
    /\ (a.source # NULL => sv.src = a.source)
    /\ sv.dst = a.destination
    /\ sv.driver = a.service
    /\ sv.channel = a.channel
    /\ sv.owner = a.owner

\* the body of the loop of session_find: no `continue' taken
session_match(sv, a) ==
    /\ (a.source # NULL => sv.src = a.source)
    /\ sv.dst = a.destination
    /\ sv.driver = a.service
    /\ (a.channel # 0 => sv.channel = a.channel)
    /\ sv.owner = a.owner

RECURSIVE session_find_in(_, _, _)
session_find_in(l, sv, a) ==
    IF l = <<>> THEN NoSession
    ELSE IF session_match(sv[Head(l)], a) THEN Head(l)
    ELSE session_find_in(Tail(l), sv, a)

session_find(W, a) == session_find_in(W.sessions, W.session, a)

\* obc_driver_find: map.c registers the only driver
obc_driver_find(service) == IF service = "MAP" THEN "MAP" ELSE NULL

(* --------------------- completion of a request -------------------------- *)
\* callback->func(callback->session, err, callback->data)
callback_func(W, r, e) ==
    [W EXCEPT !.req[r].ncb = Sat(@), !.req[r].err = e]

finish_keep(W, r, where) ==
    [W EXCEPT !.req[r].pc = "done", !.req[r].failed = where]

\* the tail shared by the handlers that end a request: unref, g_free(callback)
finish(W, r, where) ==
    LET W1 == obc_session_unref(W, W.req[r].session) IN
    [W1 EXCEPT !.req[r].pc = "done", !.req[r].failed = where]

FreeSlot == CHOOSE s \in Sess : session[s].alloc = "none" /\
                \A q \in Sess : q < s => session[q].alloc # "none"

HasFreeSlot == \E s \in Sess : session[s].alloc = "none"

NextReq(r) == /\ req[r].pc = "free"
              /\ \A q \in Req : q < r => req[q].pc # "free"

(* ------------------------- obc_session_create --------------------------- *)
\* fault: the failure injected into the call
\*   "none", "nomem" (g_try_malloc0 of the session), "nobus" (dbus_bus_get /
\*   g_dbus_setup_bus), "nocallback" (g_try_malloc0 of the callback),
\*   "nosend" (send_method_call returns NULL)
CreateFaults == {"none", "nomem", "nobus", "nocallback", "nosend"}

obc_session_create(r, a, fault) ==
    /\ NextReq(r)
    /\ LET W == World
           f == session_find(W, a)
           null == [op |-> "create", on |-> 0, id |-> r, ret |-> "NULL"]
       IN
       IF a.destination = NULL THEN Commit(W, null)
       ELSE IF f # NoSession THEN
           \* reuse: obc_session_ref, then proceed
           /\ fault \in {"none", "nocallback", "nosend"}
           /\ LET W1 == obc_session_ref(W, f) IN
              IF fault = "nocallback" THEN
                  Commit([obc_session_unref(W1, f) EXCEPT
                            !.req[r].pc = "null", !.req[r].args = a], null)
              ELSE LET W2 == obc_session_ref(W1, f) IN
                  IF fault = "nosend" THEN
                      \* one unref for the two references taken
                      Commit([obc_session_unref(W2, f) EXCEPT
                                !.req[r].pc = "null", !.req[r].args = a,
                                !.req[r].session = f,
                                !.req[r].failed = "nosend"], null)
                  ELSE
                      Commit([W2 EXCEPT
                                !.session[f].pending_calls = @ \cup {r},
                                !.session[f].watch =
                                    IF a.owner # NULL THEN TRUE ELSE @,
                                !.session[f].owner =
                                    IF a.owner # NULL THEN a.owner ELSE @,
                                !.req[r] = [NoReq EXCEPT
                                    !.pc = "manager", !.session = f,
                                    !.args = a, !.held = TRUE]],
                             [op |-> "create", on |-> f, id |-> r, ret |-> "session"])
       ELSE IF obc_driver_find(a.service) = NULL THEN Commit(W, null)
       ELSE IF fault = "nomem" THEN Commit(W, null)
       ELSE IF fault = "nobus" THEN
           \* session_free called directly on the session just allocated,
           \* with refcount 1 and no other field than the channel set
           /\ HasFreeSlot
           /\ LET s == FreeSlot
                  W1 == [W EXCEPT !.session[s] = [NoSess EXCEPT
                           !.alloc = "live", !.refcount = 1,
                           !.channel = a.channel]]
              IN Commit(session_free(W1, s), null)
       ELSE
           /\ HasFreeSlot
           /\ LET s == FreeSlot
                  W1 == [W EXCEPT !.session[s] = [NoSess EXCEPT
                           !.alloc = "live", !.refcount = 1,
                           !.channel = a.channel, !.src = a.source,
                           !.dst = a.destination,
                           !.driver = obc_driver_find(a.service)]]
              IN
              IF fault = "nocallback" THEN
                  Commit([obc_session_unref(W1, s) EXCEPT
                            !.req[r].pc = "null", !.req[r].args = a], null)
              ELSE LET W2 == obc_session_ref(W1, s) IN
                  IF fault = "nosend" THEN
                      \* one unref for the two references taken
                      Commit([obc_session_unref(W2, s) EXCEPT
                                !.req[r].pc = "null", !.req[r].args = a,
                                !.req[r].session = s,
                                !.req[r].failed = "nosend"], null)
                  ELSE
                      Commit([W2 EXCEPT
                                !.session[s].pending_calls = @ \cup {r},
                                !.session[s].watch = (a.owner # NULL),
                                !.session[s].owner = a.owner,
                                !.req[r] = [NoReq EXCEPT
                                    !.pc = "manager", !.session = s,
                                    !.args = a, !.held = TRUE]],
                             [op |-> "create", on |-> s, id |-> r, ret |-> "session"])

(* ----------------------------- bring-up --------------------------------- *)
\* manager_reply: the FindAdapter / DefaultAdapter reply
\*   out: "error" (error reply), "noargs" (no object path in the reply),
\*        "nosend" (RequestSession cannot be sent), "ok"
manager_reply(r, out) ==
    /\ req[r].pc = "manager"
    /\ LET s == req[r].session
           W1 == [World EXCEPT !.session[s].pending_calls = @ \ {r}]
           l == Event
       IN
       IF out \in {"error", "noargs"} THEN
           Commit(finish(W1, r, "manager"), l)
       ELSE LET W2 == [W1 EXCEPT !.session[s].adapter = TRUE] IN
           IF out = "nosend" THEN Commit(finish(W2, r, "manager"), l)
           ELSE Commit([W2 EXCEPT !.session[s].pending_calls = @ \cup {r},
                                  !.req[r].pc = "adapter"], l)

session_connect_always(W, r, start) ==
    LET s == W.req[r].session IN
    IF W.session[s].channel > 0 THEN
        IF start
        THEN [W |-> [W EXCEPT !.session[s].io = "rfcomm",
                              !.req[r].pc = "rfcomm"], err |-> 0]
        ELSE [W |-> W, err |-> -1]
    ELSE
        IF start
        THEN [W |-> [W EXCEPT !.session[s].io = "sdp",
                              !.req[r].pc = "service"], err |-> 0]
        ELSE [W |-> W, err |-> -1]

session_connect_discovers(W, r, start) ==
    LET s == W.req[r].session IN
    IF W.session[s].obex # NULL THEN
        [W |-> [W EXCEPT !.req[r].pc = "idle"], err |-> 0]
    ELSE
        IF start
        THEN [W |-> [W EXCEPT !.session[s].io = "sdp",
                              !.req[r].pc = "service"], err |-> 0]
        ELSE [W |-> W, err |-> -1]

\* session_connect: returns the world and err
\*   start: whether rfcomm_connect / service_connect can be started
session_connect(W, r, start) ==
    LET s == W.req[r].session IN
    IF W.session[s].obex # NULL THEN
        [W |-> [W EXCEPT !.req[r].pc = "idle"], err |-> 0]
    ELSE IF W.session[s].channel > 0 THEN
        IF start
        THEN [W |-> [W EXCEPT !.session[s].io = "rfcomm",
                              !.req[r].pc = "rfcomm"], err |-> 0]
        ELSE [W |-> W, err |-> -1]
    ELSE
        IF start
        THEN [W |-> [W EXCEPT !.session[s].io = "sdp",
                              !.req[r].pc = "service"], err |-> 0]
        ELSE [W |-> W, err |-> -1]

\* adapter_reply, line 704: the RequestSession reply is no error, the
\* adapter has admitted the session
admission_granted(W, s) == [W EXCEPT !.session[s].ngrant = @ + 1]

\* adapter_reply: the RequestSession reply
adapter_reply(r, out, start) ==
    /\ req[r].pc = "adapter"
    /\ LET s == req[r].session
           W1 == [World EXCEPT !.session[s].pending_calls = @ \ {r}]
           l == Event
       IN
       IF out = "error" THEN Commit(finish(W1, r, "adapter"), l)
       ELSE LET c == session_connect(admission_granted(W1, s), r, start) IN
           IF c.err < 0 THEN Commit(finish(c.W, r, "adapter"), l)
           ELSE Commit(c.W, l)

sdp_failed_silent(W, r) ==
    LET s == W.req[r].session
        W1 == [W EXCEPT !.session[s].io = NULL]
    IN finish(W1, r, "discovery")

\* the `failed' label of service_callback and search_callback
sdp_failed(W, r) ==
    LET s == W.req[r].session
        W1 == [W EXCEPT !.session[s].io = NULL]
    IN finish(callback_func(W1, r, "Unable to find service record"),
              r, "discovery")

\* service_callback: the SDP socket became writable (or failed)
service_callback(r, ok) ==
    /\ req[r].pc = "service"
    /\ LET l == Event IN
       IF ok THEN Commit([World EXCEPT !.req[r].pc = "search"], l)
       ELSE Commit(sdp_failed(World, r), l)

\* process_callback returning FALSE on G_IO_ERR | G_IO_HUP | G_IO_NVAL or
\* when sdp_process fails: the watch is gone and nothing else happens
process_callback(r) ==
    /\ req[r].pc = "search"
    /\ Commit([World EXCEPT !.req[r].pc = "stalled"],
              Event)

\* search_callback, run by sdp_process from process_callback
\*   out: "none" (status, type, empty response or no RFCOMM channel),
\*        "found" (a channel, rfcomm_connect started),
\*        "noconnect" (a channel, rfcomm_connect returns NULL)
search_callback(r, out) ==
    /\ req[r].pc = "search"
    /\ LET s == req[r].session
           l == IF out = "none"
                THEN [op |-> "search_callback", on |-> s, id |-> r,
                      ret |-> out]
                ELSE Event
       IN
       IF out = "none" THEN Commit(sdp_failed(World, r), l)
       ELSE LET W1 == [World EXCEPT !.session[s].channel = FoundChannel] IN
           IF out = "found"
           THEN Commit([W1 EXCEPT !.session[s].io = "rfcomm",
                                  !.req[r].pc = "rfcomm"], l)
           ELSE Commit(sdp_failed(W1, r), l)

rfcomm_register_always(reg, s, connect_err) == g_slist_prepend(reg, s)

\* rfcomm_callback, lines 345-352: the registry after g_obex_connect
rfcomm_register(reg, s, connect_err) ==
    IF connect_err THEN reg ELSE g_slist_prepend(reg, s)

\* rfcomm_callback
\*   out: "error" (err != NULL), "noobex" (g_obex_new returns NULL),
\*        "noconnect" (g_obex_connect sets err), "ok"
rfcomm_callback(r, out) ==
    /\ req[r].pc = "rfcomm"
    /\ LET s == req[r].session
           l == Event
       IN
       IF out = "error" THEN
           Commit(finish(callback_func(World, r, "EIO"), r, "rfcomm"), l)
       ELSE IF out = "noobex" THEN
           \* goto done with err == NULL
           Commit(finish(callback_func(World, r, NULL), r, "rfcomm"), l)
       ELSE LET W1 == [World EXCEPT
                         !.session[s].io = NULL,
                         !.sessions = rfcomm_register(@, s,
                                                      out = "noconnect")]
           IN
           IF out = "noconnect" THEN
               Commit(finish(callback_func(W1, r, "EIO"), r, "rfcomm"), l)
           ELSE
               Commit([W1 EXCEPT !.session[s].obex = "obex",
                                 !.session[s].handshake = "inprogress",
                                 !.req[r].pc = "obex"], l)

\* connect_cb: the OBEX CONNECT response
\*   out: "error" (err != NULL), "rsp" (response code not success), "ok"
connect_cb(r, out) ==
    /\ req[r].pc = "obex"
    /\ LET s == req[r].session
           l == Event
           W1 == [World EXCEPT !.session[s].handshake =
                                   IF out = "ok" THEN "ok" ELSE "failed"]
       IN
       IF out = "ok"
       THEN Commit(finish(callback_func(W1, r, NULL), r, NULL), l)
       ELSE Commit(finish(callback_func(W1, r, "EIO"), r, "obex"), l)

\* connection_complete: the idle callback of a request on a session that
\* already has a handle
connection_complete(r) ==
    /\ req[r].pc = "idle"
    /\ Commit(finish(callback_func(World, r, NULL), r, NULL),
              Event)

\* the caller of obc_session_create releases the reference it was returned
caller_unref(r) ==
    /\ req[r].held
    /\ Commit([obc_session_unref(World, req[r].session) EXCEPT
                 !.req[r].held = FALSE],
              Event)

(* ------------------------- transfers of a session ----------------------- *)
NextTrans(t) == /\ transfer[t].st = "none"
                /\ \A q \in Trans : q < t => transfer[q].st # "none"

obc_session_get_transfer(W, s) ==
    IF W.session[s].pending # <<>> THEN Head(W.session[s].pending) ELSE 0

obc_session_add_transfer(W, s, t) ==
    [W EXCEPT !.session[s].pending = Append(@, t)]

obc_session_remove_transfer(W, s, t) ==
    [W EXCEPT !.session[s].pending = g_slist_remove(@, t)]

\* what a transfer exposes as its object path: one, or none
Paths == {NULL, "path"}

\* transfer object: registration appends the transfer to the queue of its
\* session
\*   path: the object path the transfer is given, NULL when it exposes none
obc_transfer_register(W, s, t, op, path) ==
    obc_session_add_transfer(
        [W EXCEPT !.transfer[t] = [NoTransfer EXCEPT
            !.st = "registered", !.session = s, !.op = op,
            !.path = path]], s, t)

obc_transfer_get_path(W, t) == W.transfer[t].path

obc_transfer_get_size(W, t) == TransferSize

\* transfer object: unregistration removes the transfer from the queue of its
\* session and ends what is outstanding for it
obc_transfer_unregister(W, t) ==
    IF t = 0 THEN W
    ELSE obc_session_remove_transfer(
        [W EXCEPT !.transfer[t].st = "unregistered",
                  !.transfer[t].started = "no",
                  !.transfer[t].ended = FALSE,
                  !.transfer[t].path = NULL,
                  !.transfer[t].op = NULL,
                  !.conts = [k \in ContKeys |->
                               IF k.t = t THEN 0 ELSE W.conts[k]]],
        W.transfer[t].session, t)

session_request_both(W, s, cb, t, agentok) ==
    IF W.session[s].agent = NULL /\ obc_transfer_get_path(W, t) = NULL THEN
        [W |-> [W EXCEPT !.conts[[t |-> t, kind |-> "idle", cb |-> cb]]
                            = @ + 1], err |-> 0]
    ELSE IF agentok THEN
        [W |-> [W EXCEPT !.conts[[t |-> t, kind |-> "agent", cb |-> cb]]
                            = @ + 1], err |-> 0]
    ELSE [W |-> W, err |-> -1]

\* session_request: the admission cycle of transfer t with continuation cb
\*   agentok: whether obc_agent_request can be issued
session_request(W, s, cb, t, agentok) ==
    IF W.session[s].agent = NULL \/ obc_transfer_get_path(W, t) = NULL THEN
        [W |-> [W EXCEPT !.conts[[t |-> t, kind |-> "idle", cb |-> cb]]
                            = @ + 1], err |-> 0]
    ELSE IF agentok THEN
        [W |-> [W EXCEPT !.conts[[t |-> t, kind |-> "agent", cb |-> cb]]
                            = @ + 1], err |-> 0]
    ELSE [W |-> W, err |-> -1]

\* map.c: g_dbus_send_message(conn, reply) of buffer_cb and empty_cb. The
\* reply is made for map->msg; a method call is named by the transfer it
\* created, 0 is no message. nreply and from are history fields of the call:
\* the number of replies it was sent and the transfer the last one reports.
map_send_reply(W, s, t) ==
    LET m == W.session[s].msg
    IN IF m = 0 THEN W
       ELSE [W EXCEPT !.transfer[m].nreply = Sat(@), !.transfer[m].from = t]

\* map.c: buffer_cb replies with the buffer of the head of the queue and
\* unregisters it
buffer_cb(W, s) ==
    LET transfer_ == obc_session_get_transfer(W, s)
    IN obc_transfer_unregister(map_send_reply(W, s, transfer_), transfer_)

\* map.c: empty_cb replies with the outcome it is called with, that of
\* transfer t
empty_cb(W, s, t) == map_send_reply(W, s, t)

\* callback->func(session, gerr, callback->data) of session_terminate_transfer
session_callback_func(W, s, t) ==
    LET c == W.session[s].callback
        W1 == [W EXCEPT !.transfer[c.data].ncb = Sat(@)]
    IN IF c.func = "buffer_cb" THEN buffer_cb(W1, s) ELSE empty_cb(W1, s, t)

session_terminate_transfer(W, s, t, agentok) ==
    IF W.session[s].callback.func # NULL THEN session_callback_func(W, s, t)
    ELSE LET W1 == obc_session_ref(W, s)
             W2 == obc_transfer_unregister(W1, t)
             W3 == IF W2.session[s].pending # <<>>
                   THEN session_request(W2, s, "put",
                            Head(W2.session[s].pending), agentok).W
                   ELSE W2
         IN obc_session_unref(W3, s)

session_notify_complete(W, s, t, agentok) ==
    session_terminate_transfer(
        [W EXCEPT !.transfer[t].ended = TRUE], s, t, agentok)

session_notify_error(W, s, t, agentok) ==
    session_terminate_transfer(
        [W EXCEPT !.transfer[t].ended = TRUE], s, t, agentok)

session_notify_progress(W, s, t, transferred, agentok) ==
    IF transferred = obc_transfer_get_size(W, t)
    THEN session_notify_complete(W, s, t, agentok)
    ELSE W

\* startok: whether obc_transfer_get / obc_transfer_put returns 0
session_prepare_get(W, s, t, startok, agentok) ==
    IF startok THEN [W EXCEPT !.transfer[t].started = "get",
                              !.transfer[t].ended = FALSE]
    ELSE session_notify_error(W, s, t, agentok)

session_prepare_put(W, s, t, startok, agentok) ==
    IF startok THEN [W EXCEPT !.transfer[t].started = "put",
                              !.transfer[t].ended = FALSE]
    ELSE session_notify_error(W, s, t, agentok)

pending_cb(W, s, k, startok, agentok) ==
    IF k.cb = "get" THEN session_prepare_get(W, s, k.t, startok, agentok)
    ELSE session_prepare_put(W, s, k.t, startok, agentok)

set_callback(W, s, func, t) ==
    IF func # NULL
    THEN [W EXCEPT !.session[s].callback = [func |-> func, data |-> t]]
    ELSE W

\* a step of the transfer layer: the bound on the copies of one outstanding
\* continuation is kept
CommitT(W, l) == /\ \A k \in ContKeys : W.conts[k] <= MaxDup
                 /\ Commit(W, l)

Called(op, s, t, ret) == [op |-> op, on |-> s, id |-> t, ret |-> ret]

Live(s) == session[s].alloc = "live"

\* obc_session_get
\*   regok: whether obc_transfer_register returns a transfer
\*   path:  the object path obc_transfer_register gives the transfer
obc_session_get_ret(W, s, t, func, regok, path, agentok) ==
    IF W.session[s].obex = NULL THEN [W |-> W, ret |-> "-ENOTCONN"]
    ELSE IF ~regok THEN [W |-> W, ret |-> "-EIO"]
    ELSE LET W1 == obc_transfer_register(W, s, t, "get", path)
             W2 == set_callback(W1, s, func, t)
             rq == session_request(W2, s, "get", t, agentok)
         IN [W |-> rq.W, ret |-> IF rq.err < 0 THEN "-EAGENT" ELSE "0"]

obc_session_get(s, t, func, regok, path, agentok) ==
    /\ Live(s) /\ NextTrans(t)
    /\ LET g == obc_session_get_ret(World, s, t, func, regok, path, agentok)
       IN CommitT(g.W, Called("get", s, t, g.ret))

\* obc_session_pull
obc_session_pull(s, t, func, regok, path, agentok) ==
    /\ Live(s) /\ NextTrans(t)
    /\ IF session[s].obex = NULL THEN
           CommitT(World, Called("pull", s, t, "-ENOTCONN"))
       ELSE IF ~regok THEN CommitT(World, Called("pull", s, t, "-EIO"))
       ELSE LET W1 == obc_transfer_register(World, s, t, "pull", path)
                W2 == set_callback(W1, s, func, t)
                rq == session_request(W2, s, "get", t, agentok)
            IN IF rq.err = 0 THEN CommitT(rq.W, Called("pull", s, t, "0"))
               ELSE CommitT(obc_transfer_unregister(rq.W, t),
                            Called("pull", s, t, "-EAGENT"))

put_busy_never(sv) == FALSE

\* obc_session_put, line 1394
put_busy(sv) == sv.pending # <<>>

\* obc_session_put
obc_session_put_ret(W, s, t, func, regok, path, agentok) ==
    IF W.session[s].obex = NULL THEN [W |-> W, ret |-> "-ENOTCONN"]
    ELSE IF put_busy(W.session[s]) THEN [W |-> W, ret |-> "-EISCONN"]
    ELSE LET W1 == set_callback(W, s, func, t) IN
        IF ~regok THEN [W |-> W1, ret |-> "-EIO"]
        ELSE LET W2 == obc_transfer_register(W1, s, t, "put", path)
                 rq == session_request(W2, s, "put", t, agentok)
             IN [W |-> rq.W, ret |-> IF rq.err < 0 THEN "-EAGENT" ELSE "0"]

obc_session_put(s, t, func, regok, path, agentok) ==
    /\ Live(s) /\ NextTrans(t)
    /\ LET p == obc_session_put_ret(World, s, t, func, regok, path, agentok)
       IN CommitT(p.W, Called("put", s, t, p.ret))

send_is_head_always(W, s, t) == TRUE

\* obc_session_send, line 1285
send_is_head(W, s, t) == t = Head(W.session[s].pending)

\* obc_session_send
\*   fileok: whether obc_transfer_set_file returns 0
obc_session_send(s, t, regok, fileok, path, agentok) ==
    /\ Live(s) /\ NextTrans(t)
    /\ IF session[s].obex = NULL THEN
           CommitT(World, Called("send", s, t, "-ENOTCONN"))
       ELSE IF ~regok THEN CommitT(World, Called("send", s, t, "-EINVAL"))
       ELSE LET W1 == obc_transfer_register(World, s, t, "send", path) IN
           IF ~fileok THEN
               CommitT(obc_transfer_unregister(W1, t),
                       Called("send", s, t, "-EFILE"))
           ELSE IF ~send_is_head(W1, s, t) THEN
               CommitT(W1, Called("send", s, t, "0"))
           ELSE LET rq == session_request(W1, s, "put", t, agentok) IN
               IF rq.err < 0
               THEN CommitT(obc_transfer_unregister(rq.W, t),
                            Called("send", s, t, "-EAGENT"))
               ELSE CommitT(rq.W, Called("send", s, t, "0"))

\* session_request_proceed: the idle callback of an admission without agent
session_request_proceed(k, startok, agentok) ==
    /\ k.kind = "idle" /\ conts[k] > 0
    /\ Live(transfer[k.t].session)
    /\ LET s == transfer[k.t].session
           W1 == [World EXCEPT !.conts[k] = @ - 1]
       IN CommitT(pending_cb(W1, s, k, startok, agentok),
                  IF startok THEN Event
                  ELSE Called("start_error", s, k.t, "none"))

\* session_request_reply: the agent's reply to Request
\*   granted: FALSE for an error reply
session_request_reply(k, granted, startok, agentok) ==
    /\ k.kind = "agent" /\ conts[k] > 0
    /\ Live(transfer[k.t].session)
    /\ LET s == transfer[k.t].session
           W1 == [World EXCEPT !.conts[k] = @ - 1]
       IN IF granted
          THEN CommitT(pending_cb(W1, s, k, startok, agentok),
                       IF startok THEN Event
                       ELSE Called("start_error", s, k.t, "none"))
          ELSE CommitT(session_terminate_transfer(W1, s, k.t, agentok),
                       Called("agent_error", s, k.t, "none"))

\* transfer_progress: a report of the started transfer t
\*   err: an error report; otherwise n bytes are transferred so far
transfer_progress(t, n, err, agentok) ==
    /\ transfer[t].st = "registered"
    /\ transfer[t].started # "no" /\ ~transfer[t].ended
    /\ Live(transfer[t].session)
    /\ LET s == transfer[t].session IN
       IF err
       THEN CommitT(session_notify_error(World, s, t, agentok),
                    Called("progress_error", s, t, "none"))
       ELSE CommitT(session_notify_progress(World, s, t, n, agentok),
                    IF n = TransferSize
                    THEN Called("progress_size", s, t, "none")
                    ELSE Event)

RECURSIVE unregister_all(_, _)
unregister_all(W, l) ==
    IF l = <<>> THEN W
    ELSE unregister_all(obc_transfer_unregister(W, Head(l)), Tail(l))

\* obc_session_shutdown
obc_session_shutdown(s) ==
    /\ Live(s)
    /\ LET W1 == obc_session_ref(World, s)
           W2 == unregister_all(W1, W1.session[s].pending)
           W3 == IF W2.session[s].path # NULL
                 THEN session_unregistered(W2, s) ELSE W2
       IN CommitT(obc_session_unref(W3, s), Event)

\* map.c: map_probe
\*   out: "nomem" (g_try_new0 fails), "noiface" (g_dbus_register_interface
\*        of the MAP interface fails), "ok"
map_probe(W, s, out) ==
    IF out = "nomem" THEN [W |-> W, err |-> -1]
    ELSE LET W1 == obc_session_ref(W, s) IN
         IF out = "noiface" THEN [W |-> map_free(W1, s), err |-> -1]
         ELSE [W |-> [W1 EXCEPT !.session[s].map = TRUE,
                               !.session[s].nprobe = @ + 1],
               err |-> 0]

\* g_strdup_printf("%s/session%ju", SESSION_BASEPATH, counter)
session_path(n) == "/org/openobex/session" \o ToString(n)

\* obc_session_register, line 1335
register_fresh(sv) == sv.path = NULL

counter_keep(n) == n

\* obc_session_register, line 1339: counter++
counter_next(n) == n + 1

\* obc_session_register
\*   regok: whether g_dbus_register_interface of the session interface
\*          succeeds
\*   probe: the outcome of the probe of the driver
obc_session_register(s, regok, probe) ==
    /\ Live(s)
    /\ IF ~register_fresh(session[s]) THEN
           CommitT(World, Called("register", s, 0, session[s].path))
       ELSE
           /\ counter < MaxPaths
           /\ LET p == session_path(counter)
                  W1 == [World EXCEPT !.session[s].path = p,
                                      !.counter = counter_next(@),
                                      !.paths = Append(@, p)]
                  fail == Called("register", s, 0, NULL)
              IN IF ~regok THEN
                     CommitT([W1 EXCEPT !.session[s].path = NULL], fail)
                 ELSE LET pr == map_probe(W1, s, probe) IN
                     IF pr.err < 0 THEN
                         CommitT([pr.W EXCEPT !.session[s].path = NULL], fail)
                     ELSE CommitT(pr.W, Called("register", s, 0, p))

\* obc_session_set_owner
obc_session_set_owner(W, s, name) ==
    [W EXCEPT !.session[s].watch = TRUE, !.session[s].owner = name]

\* obc_agent_create: the agent of the session, with its bus name and path
obc_agent_create(W, s, name, path) ==
    [W EXCEPT !.session[s].agent = name, !.session[s].agent_path = path]

obc_session_set_agent_replace(s, name, path) ==
    /\ Live(s)
    /\ LET W1 == IF ~session[s].watch
                 THEN obc_session_set_owner(World, s, name)
                 ELSE World
       IN CommitT(obc_agent_create(W1, s, name, path),
                  Called("set_agent", s, 0,
                         IF session[s].agent # NULL THEN "-EALREADY"
                         ELSE "0"))

\* obc_session_set_agent (AssignAgent): name is the bus name of the sender,
\* path the object path it gives
obc_session_set_agent(s, name, path) ==
    /\ Live(s)
    /\ IF session[s].agent # NULL THEN
           CommitT(World, Called("set_agent", s, 0, "-EALREADY"))
       ELSE LET W1 == IF ~session[s].watch
                      THEN obc_session_set_owner(World, s, name)
                      ELSE World
            IN CommitT(obc_agent_create(W1, s, name, path),
                       Called("set_agent", s, 0, "0"))

\* positions of a request whose continuation is outstanding
InFlight == {"manager", "adapter", "service", "search", "rfcomm", "obex",
             "idle", "stalled"}

\* positions of a request that has not completed bring-up
InBringup == {"manager", "adapter", "service", "search", "rfcomm", "obex"}

Holds(r) == req[r].held \/ req[r].pc \in InFlight

(* --------------------------- specification ------------------------------ *)
Init ==
    /\ session = [s \in Sess |-> NoSess]
    /\ sessions = <<>>
    /\ req = [r \in Req |-> NoReq]
    /\ transfer = [t \in Trans |-> NoTransfer]
    /\ conts = [k \in ContKeys |-> 0]
    /\ counter = 0
    /\ paths = <<>>
    /\ last = Event
    /\ folder = NoSetFolder

Next ==
    \/ \E r \in Req, a \in Args, f \in CreateFaults :
           obc_session_create(r, a, f)
    \/ \E r \in Req, o \in {"error", "noargs", "nosend", "ok"} :
           manager_reply(r, o)
    \/ \E r \in Req, o \in {"error", "ok"}, st \in BOOLEAN :
           adapter_reply(r, o, st)
    \/ \E r \in Req, ok \in BOOLEAN : service_callback(r, ok)
    \/ \E r \in Req : process_callback(r)
    \/ \E r \in Req, o \in {"none", "found", "noconnect"} :
           search_callback(r, o)
    \/ \E r \in Req, o \in {"error", "noobex", "noconnect", "ok"} :
           rfcomm_callback(r, o)
    \/ \E r \in Req, o \in {"error", "rsp", "ok"} : connect_cb(r, o)
    \/ \E r \in Req : connection_complete(r)
    \/ \E r \in Req : caller_unref(r)

Spec == Init /\ [][Next]_vars

\* a READY session: one completed obc_session_create, the caller's reference
ReadySession ==
    [NoSess EXCEPT !.alloc = "live", !.refcount = 1, !.dst = "d1",
                   !.driver = "MAP", !.channel = FoundChannel,
                   !.adapter = TRUE, !.obex = "obex", !.handshake = "ok",
                   !.ngrant = 1]

ReadyReq ==
    [NoReq EXCEPT !.pc = "done", !.session = 1, !.held = TRUE, !.ncb = 1,
                  !.args = [NoArgs EXCEPT !.destination = "d1",
                                          !.service = "MAP"]]

InitTransfer ==
    /\ session = [s \in Sess |-> IF s = 1 THEN ReadySession ELSE NoSess]
    /\ sessions = <<1>>
    /\ req = [r \in Req |-> IF r = 1 THEN ReadyReq ELSE NoReq]
    /\ transfer = [t \in Trans |-> NoTransfer]
    /\ conts = [k \in ContKeys |-> 0]
    /\ counter = 0
    /\ paths = <<>>
    /\ last = Event
    /\ folder = NoSetFolder

AgentNames == {"agent1"}

\* the object path an agent is assigned under
AgentPaths == {"/agent1"}

\* the bus names that call AssignAgent on the READY session
Agents == AgentNames \cup {"agent2"}

\* the outcomes of obc_agent_request for a transfer of session s: the request
\* is made only of the agent of a session, and then it is sent or not
AgentReplies(s) ==
    IF s \in Sess /\ session[s].agent # NULL THEN BOOLEAN ELSE {TRUE}

\* the transfers of SpecTransfer are registered on the bus connection of the
\* session and have an object path
BusPaths == {"path"}

NextTransfer ==
    \/ \E s \in Sess, t \in Trans, f \in {NULL, "buffer_cb"},
          regok \in BOOLEAN, p \in BusPaths :
       \E agentok \in AgentReplies(s) :
           obc_session_get(s, t, f, regok, p, agentok)
    \/ \E s \in Sess, t \in Trans, f \in {NULL, "buffer_cb"},
          regok \in BOOLEAN, p \in BusPaths :
       \E agentok \in AgentReplies(s) :
           obc_session_pull(s, t, f, regok, p, agentok)
    \/ \E s \in Sess, t \in Trans, f \in {NULL, "empty_cb"},
          regok \in BOOLEAN, p \in BusPaths :
       \E agentok \in AgentReplies(s) :
           obc_session_put(s, t, f, regok, p, agentok)
    \/ \E s \in Sess, t \in Trans, regok \in BOOLEAN, fileok \in BOOLEAN,
          p \in BusPaths :
       \E agentok \in AgentReplies(s) :
           obc_session_send(s, t, regok, fileok, p, agentok)
    \/ \E k \in ContKeys, startok \in BOOLEAN :
       \E agentok \in AgentReplies(transfer[k.t].session) :
           session_request_proceed(k, startok, agentok)
    \/ \E k \in ContKeys, granted \in BOOLEAN, startok \in BOOLEAN :
       \E agentok \in AgentReplies(transfer[k.t].session) :
           session_request_reply(k, granted, startok, agentok)
    \/ \E t \in Trans :
       \E agentok \in AgentReplies(transfer[t].session) :
           \/ \E n \in {TransferSize - 1, TransferSize} :
                  transfer_progress(t, n, FALSE, agentok)
           \/ transfer_progress(t, 0, TRUE, agentok)
    \/ \E s \in Sess : obc_session_shutdown(s)
    \/ \E s \in Sess, n \in Agents, p \in AgentPaths :
           obc_session_set_agent(s, n, p)

SpecTransfer == InitTransfer /\ [][NextTransfer]_vars

(* ------------------- destruction of a session in use -------------------- *)
\* a continuation of the transfer layer that runs with the pointer to a
\* session that session_free has released: pending->session of
\* session_request_proceed and session_request_reply, user_data of
\* transfer_progress
\*   out: "start"  pending->cb starts the transfer (obc_transfer_get /
\*                 obc_transfer_put return 0): the session is not read
\*        otherwise the handler reads the released session (session->agent,
\*        session->callback); of what may follow, two outcomes are kept:
\*        "ignored"       the transfer is left as it is
\*        "unregistered"  session_terminate_transfer unregisters it
\*        (a stop of the program is the behaviour that ends here)
continuation_after_free(k, out) ==
    /\ conts[k] > 0
    /\ transfer[k.t].session # NoSession
    /\ ~Live(transfer[k.t].session)
    /\ LET s == transfer[k.t].session
           W1 == [World EXCEPT !.conts[k] = @ - 1]
           l == Called("after_free", s, k.t, out)
       IN IF out = "start"
          THEN CommitT([W1 EXCEPT !.transfer[k.t].started = k.cb], l)
          ELSE IF out = "unregistered"
          THEN CommitT(obc_transfer_unregister(W1, k.t), l)
          ELSE CommitT(W1, l)

\* transfer_progress of a transfer started for a released session
progress_after_free(t, out) ==
    /\ transfer[t].st = "registered"
    /\ transfer[t].started # "no" /\ ~transfer[t].ended
    /\ ~Live(transfer[t].session)
    /\ LET s == transfer[t].session
           l == Called("after_free", s, t, out)
       IN IF out = "unregistered"
          THEN CommitT(obc_transfer_unregister(World, t), l)
          ELSE CommitT([World EXCEPT !.transfer[t].ended = TRUE], l)

NextDestroy ==
    \/ NextTransfer
    \/ \E r \in Req : caller_unref(r)
    \/ \E k \in ContKeys, o \in {"start", "ignored", "unregistered"} :
           continuation_after_free(k, o)
    \/ \E t \in Trans, o \in {"ignored", "unregistered"} :
           progress_after_free(t, o)

SpecDestroy == InitTransfer /\ [][NextDestroy]_vars

(* ------------------------- bring-up, fair ------------------------------- *)
\* every external step that a request waits for eventually completes, with
\* one of its outcomes: the reply of a management call, the event of the SDP
\* socket, the SDP search, the RFCOMM connect, the OBEX CONNECT response and
\* the idle callback
ExternalStepsComplete ==
    \A r \in Req :
        /\ WF_vars(\E o \in {"error", "noargs", "nosend", "ok"} :
                      manager_reply(r, o))
        /\ WF_vars(\E o \in {"error", "ok"}, st \in BOOLEAN :
                      adapter_reply(r, o, st))
        /\ WF_vars(\E ok \in BOOLEAN : service_callback(r, ok))
        /\ WF_vars(process_callback(r)
                      \/ \E o \in {"none", "found", "noconnect"} :
                             search_callback(r, o))
        /\ WF_vars(\E o \in {"error", "noobex", "noconnect", "ok"} :
                      rfcomm_callback(r, o))
        /\ WF_vars(\E o \in {"error", "rsp", "ok"} : connect_cb(r, o))
        /\ WF_vars(connection_complete(r))

SpecLive == Init /\ [][Next]_vars /\ ExternalStepsComplete

(* ------------------------ owners and agents ----------------------------- *)
\* requests for one device, service and channel, made without owner or by the
\* bus name that also assigns the agent
OwnerArgs == [source : Sources, destination : {"d1"}, service : {"MAP"},
              channel : {FoundChannel}, owner : {NULL} \cup AgentNames]

NextOwner ==
    \/ Next
    \/ \E r \in Req, a \in OwnerArgs : obc_session_create(r, a, "none")
    \/ \E s \in Sess, n \in AgentNames, p \in AgentPaths :
           obc_session_set_agent(s, n, p)

SpecOwner == Init /\ [][NextOwner]_vars

(* ---------------------- shutdown during bring-up ------------------------ *)
\* obc_session_shutdown called by a holder of the session (or by
\* owner_disconnected) while requests of the session are in bring-up: the
\* pending transfers are unregistered, the stream is shut down (its pending
\* connect then reports what rfcomm_callback or the SDP callbacks are given),
\* pending_calls is not read
shutdown_request(s) ==
    /\ Live(s)
    /\ \E r \in Req : req[r].session = s /\ Holds(r)
    /\ LET W1 == obc_session_ref(World, s)
           W2 == unregister_all(W1, W1.session[s].pending)
           W3 == IF W2.session[s].path # NULL
                 THEN session_unregistered(W2, s) ELSE W2
       IN Commit(obc_session_unref(W3, s), Called("shutdown", s, 0, "none"))

NextShutdown ==
    \/ Next
    \/ \E s \in Sess : shutdown_request(s)

SpecShutdown == Init /\ [][NextShutdown]_vars

(* ------------------- references during bring-up ------------------------- *)
\* requests for one device and service, with and without channel
HoldArgs == [source : Sources, destination : {"d1"}, service : {"MAP"},
             channel : Channels, owner : Owners]

\* requests that obc_session_create accepts, every continuation of their
\* bring-up, callers that release their reference and holders that shut the
\* session down, in any order
NextHold ==
    \/ \E r \in Req, a \in HoldArgs : obc_session_create(r, a, "none")
    \/ \E r \in Req, o \in {"error", "noargs", "nosend", "ok"} :
           manager_reply(r, o)
    \/ \E r \in Req, o \in {"error", "ok"}, st \in BOOLEAN :
           adapter_reply(r, o, st)
    \/ \E r \in Req, ok \in BOOLEAN : service_callback(r, ok)
    \/ \E r \in Req : process_callback(r)
    \/ \E r \in Req, o \in {"none", "found", "noconnect"} :
           search_callback(r, o)
    \/ \E r \in Req, o \in {"error", "noobex", "noconnect", "ok"} :
           rfcomm_callback(r, o)
    \/ \E r \in Req, o \in {"error", "rsp", "ok"} : connect_cb(r, o)
    \/ \E r \in Req : connection_complete(r)
    \/ \E r \in Req : caller_unref(r)
    \/ \E s \in Sess : shutdown_request(s)

SpecHold == Init /\ [][NextHold]_vars

(* ----------------------- registration on the bus ------------------------ *)
\* every session is READY and held by the caller that created it (sessions
\* of one device and service that were brought up side by side)
InitRegister ==
    /\ session = [s \in Sess |-> ReadySession]
    /\ sessions = [i \in 1..MaxSessions |-> MaxSessions + 1 - i]
    /\ req = [r \in Req |->
                IF r \in Sess THEN [ReadyReq EXCEPT !.session = r]
                ELSE NoReq]
    /\ transfer = [t \in Trans |-> NoTransfer]
    /\ conts = [k \in ContKeys |-> 0]
    /\ counter = 0
    /\ paths = <<>>
    /\ last = Event
    /\ folder = NoSetFolder

NextRegister ==
    \/ \E s \in Sess, regok \in BOOLEAN,
          probe \in {"nomem", "noiface", "ok"} :
           obc_session_register(s, regok, probe)
    \/ \E s \in Sess : obc_session_shutdown(s)
    \/ \E r \in Req : caller_unref(r)

SpecRegister == InitRegister /\ [][NextRegister]_vars

(* --------------------------- issuing calls ------------------------------ *)
\* requests for the device, service and channel of the READY session
ReuseArgs == [source : Sources, destination : {"d1"}, service : {"MAP"},
              channel : {FoundChannel}, owner : {NULL}]

\* the calls a client issues on a READY session and what they defer:
\* obc_session_create of the session with the replies and the idle callback
\* that complete it, and the transfer calls, of transfers with or without
\* object path, with the idle callback and the agent's reply that start them
NextIssue ==
    \/ \E r \in Req, a \in ReuseArgs : obc_session_create(r, a, "none")
    \/ \E r \in Req, o \in {"error", "noargs", "nosend", "ok"} :
           manager_reply(r, o)
    \/ \E r \in Req, o \in {"error", "ok"}, st \in BOOLEAN :
           adapter_reply(r, o, st)
    \/ \E r \in Req : connection_complete(r)
    \/ \E s \in Sess, t \in Trans, f \in {NULL, "buffer_cb"},
          regok \in BOOLEAN, p \in Paths :
       \E agentok \in AgentReplies(s) :
           obc_session_get(s, t, f, regok, p, agentok)
    \/ \E s \in Sess, t \in Trans, f \in {NULL, "buffer_cb"},
          regok \in BOOLEAN, p \in Paths :
       \E agentok \in AgentReplies(s) :
           obc_session_pull(s, t, f, regok, p, agentok)
    \/ \E s \in Sess, t \in Trans, f \in {NULL, "empty_cb"},
          regok \in BOOLEAN, p \in Paths :
       \E agentok \in AgentReplies(s) :
           obc_session_put(s, t, f, regok, p, agentok)
    \/ \E s \in Sess, t \in Trans, regok \in BOOLEAN, fileok \in BOOLEAN,
          p \in Paths :
       \E agentok \in AgentReplies(s) :
           obc_session_send(s, t, regok, fileok, p, agentok)
    \/ \E k \in ContKeys, startok \in BOOLEAN :
       \E agentok \in AgentReplies(transfer[k.t].session) :
           session_request_proceed(k, startok, agentok)
    \/ \E k \in ContKeys, granted \in BOOLEAN, startok \in BOOLEAN :
       \E agentok \in AgentReplies(transfer[k.t].session) :
           session_request_reply(k, granted, startok, agentok)
    \/ \E s \in Sess, n \in AgentNames, p \in AgentPaths :
           obc_session_set_agent(s, n, p)

SpecIssue == InitTransfer /\ [][NextIssue]_vars

(* -------------------- calls during bring-up ----------------------------- *)
\* requests for one device on a known channel
CallArgs == [source : Sources, destination : {"d1"}, service : {"MAP"},
             channel : {FoundChannel}, owner : {NULL}]

\* a client that issues transfer calls on the session obc_session_create
\* returned to it, at any point of the bring-up of that session
NextCalls ==
    \/ \E r \in Req, a \in CallArgs : obc_session_create(r, a, "none")
    \/ \E r \in Req, o \in {"error", "ok"} : manager_reply(r, o)
    \/ \E r \in Req, o \in {"error", "ok"}, st \in BOOLEAN :
           adapter_reply(r, o, st)
    \/ \E r \in Req, o \in {"error", "noconnect", "ok"} :
           rfcomm_callback(r, o)
    \/ \E r \in Req, o \in {"error", "rsp", "ok"} : connect_cb(r, o)
    \/ \E r \in Req : connection_complete(r)
    \/ \E s \in Sess, t \in Trans, f \in {NULL, "buffer_cb"},
          regok \in BOOLEAN :
           obc_session_get(s, t, f, regok, NULL, TRUE)
    \/ \E s \in Sess, t \in Trans, f \in {NULL, "buffer_cb"},
          regok \in BOOLEAN :
           obc_session_pull(s, t, f, regok, NULL, TRUE)
    \/ \E s \in Sess, t \in Trans, f \in {NULL, "empty_cb"},
          regok \in BOOLEAN :
           obc_session_put(s, t, f, regok, NULL, TRUE)
    \/ \E s \in Sess, t \in Trans, regok \in BOOLEAN, fileok \in BOOLEAN :
           obc_session_send(s, t, regok, fileok, NULL, TRUE)
    \/ \E k \in ContKeys, startok \in BOOLEAN :
           session_request_proceed(k, startok, TRUE)

SpecCalls == Init /\ [][NextCalls]_vars

(* -------------------- phonebook plugin: SetPath ------------------------- *)
Sep == "/"

Slash == <<Sep>>
Telecom == <<"t", "e", "l", "e", "c", "o", "m">>
Pb == <<"p", "b">>
Ich == <<"i", "c", "h">>
Och == <<"o", "c", "h">>
Mch == <<"m", "c", "h">>
Cch == <<"c", "c", "h">>

\* the folders folder_is_valid accepts
ValidFolders ==
    {Slash, Slash \o Telecom} \cup
    {Slash \o Telecom \o Slash \o d : d \in {Pb, Ich, Och, Mch, Cch}}

folder_is_valid_any(f) == f # NullStr

folder_is_valid(f) == f # NullStr /\ f \in ValidFolders

RECURSIVE strip_leading(_)
strip_leading(str) ==
    IF str # <<>> /\ Head(str) = Sep THEN strip_leading(Tail(str)) ELSE str

RECURSIVE strip_trailing(_)
strip_trailing(str) ==
    IF str # <<>> /\ str[Len(str)] = Sep
    THEN strip_trailing(SubSeq(str, 1, Len(str) - 1))
    ELSE str

\* the separators a string starts with and ends with
leading(str) == SubSeq(str, 1, Len(str) - Len(strip_leading(str)))
trailing(str) == SubSeq(str, Len(strip_trailing(str)) + 1, Len(str))

\* glib: g_build_filename(a, b, NULL) with b not empty: the leading
\* separators of the first element and the trailing separators of the last
\* are kept, the elements are joined by one separator, an element of
\* separators only adds no name; a first element that is NULL ends the list
g_build_filename(a, b) ==
    IF a = NullStr THEN <<>>
    ELSE IF a = <<>> THEN b
    ELSE LET mid_a == strip_trailing(strip_leading(a))
             mid_b == strip_trailing(strip_leading(b))
             last_trailing == IF mid_b = <<>> THEN b ELSE trailing(b)
         IN leading(a) \o mid_a
               \o (IF mid_b = <<>> THEN <<>>
                   ELSE (IF mid_a = <<>> THEN <<>> ELSE Slash) \o mid_b)
               \o last_trailing

\* glib: g_path_get_basename
g_path_get_basename(file_name) ==
    IF file_name = NullStr THEN NullStr
    ELSE IF file_name = <<>> THEN <<".">>
    ELSE LET t == strip_trailing(file_name)
             seps == {i \in 1..Len(t) : t[i] = Sep}
             base == IF seps = {} THEN 0
                     ELSE CHOOSE i \in seps : \A j \in seps : j <= i
         IN IF t = <<>> THEN Slash ELSE SubSeq(t, base + 1, Len(t))

\* glib: g_strrstr, as the offset of the last occurrence of needle in
\* haystack (the basename of a folder that starts with a separator occurs
\* in it); of a haystack that is NULL the result is NULL, the offset 0
g_strrstr(haystack, needle) ==
    IF haystack = NullStr THEN 0 ELSE
    LET at == {i \in 1..(Len(haystack) - Len(needle) + 1) :
                 SubSeq(haystack, i, i + Len(needle) - 1) = needle}
    IN (CHOOSE i \in at : \A j \in at : j <= i) - 1

g_strndup(str, n) == IF str = NullStr THEN NullStr ELSE SubSeq(str, 1, n)

folder_len_whole(tmp2) == tmp2

\* phonebook_set_folder, line 1802: len = tmp2 - (current_folder + 1)
folder_len(tmp2) == tmp2 - 1

\* phonebook_set_folder up to the label done: path and ret
set_folder_path(current_folder, new_folder, flags) ==
    LET root == current_folder = Slash
        child == new_folder # NullStr /\ new_folder # <<>>
    IN IF flags = 2 THEN
           [path |-> IF ~child THEN Slash
                     ELSE g_build_filename(current_folder, new_folder),
            ret |-> "0"]
       ELSE IF flags = 3 THEN
           IF root THEN [path |-> Slash, ret |-> "0"]
           ELSE LET tmp1 == g_path_get_basename(current_folder)
                    tmp2 == g_strrstr(current_folder, tmp1)
                    len == folder_len(tmp2)
                    base == IF len = 0 THEN Slash
                            ELSE g_strndup(current_folder, len)
                IN [path |-> IF ~child THEN base
                             ELSE g_build_filename(base, new_folder),
                    ret |-> "0"]
       ELSE [path |-> NullStr, ret |-> "-EBADR"]

\* phonebook_set_folder: computed is the path at the label done, path the
\* returned pointer, err what *err is set to
phonebook_set_folder(current_folder, new_folder, flags) ==
    LET c == set_folder_path(current_folder, new_folder, flags)
        ret == IF c.path # NullStr /\ ~folder_is_valid(c.path)
               THEN "-ENOENT" ELSE c.ret
    IN [computed |-> c.path,
        path |-> IF ret # "0" THEN NullStr ELSE c.path,
        err |-> ret]

\* the folders a SetPath starts from: the valid folders, and folders that
\* start with a separator and are not valid
CurrentFolders ==
    ValidFolders \cup
    {Slash \o Telecom \o Slash, Slash \o <<"x">>,
     Slash \o Telecom \o Slash \o <<"x">>,
     Slash \o Telecom \o Slash \o Pb \o Slash \o Pb,
     Slash \o Pb \o Slash \o Pb}

\* the names of a SetPath: none, empty, the names of the valid folders, a
\* name of two levels, names with leading or trailing separator, other names
NewFolders ==
    {NullStr, <<>>, Telecom, Pb, Ich, Och, Mch, Cch,
     Telecom \o Slash \o Pb, Slash \o Pb, Pb \o Slash, Slash,
     <<"x">>, <<".", ".">>}

\* flags of a SetPath: 0x02, 0x03 and another value
Flags == {1, 2, 3}

\* a SetPath request runs phonebook_set_folder
set_folder_call ==
    /\ folder.pc = "call"
    /\ LET r == phonebook_set_folder(folder.current_folder,
                                     folder.new_folder, folder.flags)
       IN folder' = [folder EXCEPT !.pc = "returned",
                                   !.computed = r.computed,
                                   !.path = r.path, !.err = r.err]
    /\ UNCHANGED <<session, sessions, req, transfer, conts, counter, paths,
                   last>>

\* a SetPath of one level up, without name, from the folder that was entered
set_folder_up ==
    /\ folder.pc = "returned" /\ folder.path # NullStr
    /\ LET r == phonebook_set_folder(folder.path, <<>>, 3)
       IN folder' = [folder EXCEPT !.pc = "back", !.up = r.path,
                                   !.uperr = r.err]
    /\ UNCHANGED <<session, sessions, req, transfer, conts, counter, paths,
                   last>>

InitFolder ==
    /\ session = [s \in Sess |-> NoSess]
    /\ sessions = <<>>
    /\ req = [r \in Req |-> NoReq]
    /\ transfer = [t \in Trans |-> NoTransfer]
    /\ conts = [k \in ContKeys |-> 0]
    /\ counter = 0
    /\ paths = <<>>
    /\ last = Event
    /\ folder \in {[NoSetFolder EXCEPT !.pc = "call", !.current_folder = c,
                                       !.new_folder = n, !.flags = f] :
                      c \in CurrentFolders, n \in NewFolders, f \in Flags}

NextFolder == set_folder_call \/ set_folder_up

SpecFolder == InitFolder /\ [][NextFolder]_vars

\* a current folder that is NULL with flags 0x03: g_path_get_basename and
\* g_strrstr are called with NULL and line 1802 subtracts from a null
\* pointer. A glib that checks its arguments returns NULL from both, the
\* difference is -1 and g_strndup returns NULL (the case phonebook_set_folder
\* computes above); without the checks the call does not return.
set_folder_undefined ==
    folder.current_folder = NullStr /\ folder.flags = 3

set_folder_abort ==
    /\ folder.pc = "call" /\ set_folder_undefined
    /\ folder' = [folder EXCEPT !.pc = "aborted"]
    /\ UNCHANGED <<session, sessions, req, transfer, conts, counter, paths,
                   last>>

\* the current folders of SpecFolder, and no current folder
AnyFolders == CurrentFolders \cup {NullStr}

InitFolderAny ==
    /\ session = [s \in Sess |-> NoSess]
    /\ sessions = <<>>
    /\ req = [r \in Req |-> NoReq]
    /\ transfer = [t \in Trans |-> NoTransfer]
    /\ conts = [k \in ContKeys |-> 0]
    /\ counter = 0
    /\ paths = <<>>
    /\ last = Event
    /\ folder \in {[NoSetFolder EXCEPT !.pc = "call", !.current_folder = c,
                                       !.new_folder = n, !.flags = f] :
                      c \in AnyFolders, n \in NewFolders, f \in Flags}

NextFolderAny == set_folder_call \/ set_folder_up \/ set_folder_abort

SpecFolderAny == InitFolderAny /\ [][NextFolderAny]_vars

(* ------------------------------- claims --------------------------------- *)
\* C1 (as stated): when holders release only the references they own,
\* session_free runs at most once on a session, only in the step that brings
\* its reference count to zero and always in that step; while a caller or an
\* in-flight bring-up continuation holds the session it is not destroyed, and
\* a destroyed session is not touched again.
DestroyedOnceAtZero ==
    [][\A s \in Sess :
          /\ session'[s].nfree <= 1
          /\ (session'[s].nfree # session[s].nfree =>
                 /\ session'[s].refcount = 0
                 /\ session[s].alloc = "live" => session[s].refcount = 1)
          /\ (session'[s].alloc # "none" /\ session'[s].refcount = 0 =>
                 session'[s].alloc = "freed" /\ session'[s].nfree = 1)
          /\ (session'[s].alloc = "live" => session'[s].refcount >= 1)
          /\ (session[s].alloc = "freed" => session'[s] = session[s])
          /\ \A r \in Req :
                (req'[r].session = s /\ (req'[r].held
                                          \/ req'[r].pc \in InFlight))
                    => session'[s].alloc = "live"]_vars

\* the session_free of obc_session_create on the session it has just
\* allocated and cannot connect to the bus: the count is 1, the session was
\* never returned, shared or registered
FreedUnshared(s) ==
    /\ session[s].alloc = "none"
    /\ session'[s].alloc = "freed" /\ session'[s].refcount = 1
    /\ last'.op = "create" /\ last'.ret = "NULL"
    /\ \A r \in Req : req'[r].session # s
    /\ ~InList(sessions, s) /\ sessions' = sessions

\* C1 (amended): session_free runs at most once on a session; on a session
\* that obc_session_create has finished building it runs only in the
\* obc_session_unref call that brings the reference count to zero and always
\* in that call, and the only other run is the one of
\* obc_session_create on the session it has just allocated when the bus
\* connection fails; while a caller or an in-flight bring-up continuation
\* holds the session it is not destroyed, and a destroyed session is not
\* touched again.
DestroyedAtZeroOrUnshared ==
    [][\A s \in Sess :
          /\ session'[s].nfree <= 1
          /\ (session'[s].nfree # session[s].nfree =>
                 \/ FreedUnshared(s)
                 \/ /\ session'[s].refcount = 0
                    /\ session[s].alloc = "live" => session[s].refcount = 1)
          /\ (session'[s].alloc # "none" /\ session'[s].refcount = 0 =>
                 session'[s].alloc = "freed" /\ session'[s].nfree = 1)
          /\ (session'[s].alloc = "freed" => session'[s].nfree = 1)
          /\ (session'[s].alloc = "live" =>
                 session'[s].refcount >= 1 /\ session'[s].nfree = 0)
          /\ (session[s].alloc = "freed" => session'[s] = session[s])
          /\ \A r \in Req :
                (req'[r].session = s /\ Holds(r)')
                    => session'[s].alloc = "live"]_vars

\* C1 witness: a session destroyed after its request ran to its completion
\* callback
DestroyedAfterBringup ==
    \E s \in Sess, r \in Req :
        /\ session[s].alloc = "freed" /\ session[s].nfree = 1
        /\ session[s].refcount = 0
        /\ req[r].session = s /\ req[r].pc = "done" /\ req[r].ncb = 1

\* C2 (as stated): two requests with identical arguments that are in
\* bring-up at the same time have the same session, with reference count 2.
SharedBeforeBringupCompletes ==
    \A r1, r2 \in Req :
        (/\ r1 # r2
         /\ req[r1].pc \in InBringup /\ req[r2].pc \in InBringup
         /\ req[r1].args = req[r2].args)
        => /\ req[r1].session = req[r2].session
           /\ session[req[r1].session].refcount = 2

Targets(s) == {r \in Req : req[r].session = s}

\* C2 (amended): a request is resolved to the session of an earlier request
\* with identical arguments when that request's OBEX CONNECT has been issued
\* and its session is the only registry entry; a session that is not in the
\* registry is never given to a second request; and once the two requests of
\* a session have finished and both callers keep their reference, the count
\* is 2.
SharedOnceConnectIssued ==
    [][/\ \A r, q \in Req :
             (/\ r # q
              /\ req[r].pc = "free" /\ req'[r].pc = "manager"
              /\ req[q].args = req'[r].args)
             => /\ (req[q].pc = "obex" /\ sessions = <<req[q].session>>
                      => req'[r].session = req[q].session)
                /\ (~InList(sessions, req[q].session)
                      => req'[r].session # req[q].session)
       /\ \A s \in Sess, r1, r2 \in Req :
             (/\ r1 # r2 /\ Targets(s)' = {r1, r2}
              /\ req'[r1].pc = "done" /\ req'[r2].pc = "done"
              /\ req'[r1].held /\ req'[r2].held)
             => session'[s].refcount = 2]_vars

\* C2 witness: a second request resolved to the session of a request whose
\* handshake is in progress
SharedDuringHandshake ==
    \E r1, r2 \in Req :
        /\ r1 # r2 /\ req[r1].pc = "obex" /\ req[r2].pc \in InFlight
        /\ req[r1].session = req[r2].session
        /\ req[r1].args = req[r2].args

\* C3: a session that has an OBEX handle has completed the CONNECT handshake
\* with a success response.
HandleAbsentOrEstablished ==
    \A s \in Sess :
        session[s].alloc = "live" /\ session[s].obex # NULL
            => session[s].handshake = "ok"

\* C4 (as stated): every session in the registry has completed its handshake.
RegistryOnlyReady ==
    \A i \in 1..Len(sessions) : session[sessions[i]].handshake = "ok"

\* C4 (amended): a session enters the registry in the rfcomm_callback step
\* that issues its OBEX CONNECT and sets its handle, never earlier; every
\* registry entry is a live session with a handle on which CONNECT was
\* issued, its handshake possibly still in progress.
RegistryAfterConnectIssued ==
    [][\A s \in Sess :
          /\ InList(sessions', s) =>
                /\ session'[s].alloc = "live"
                /\ session'[s].obex # NULL
                /\ session'[s].handshake # "none"
          /\ (InList(sessions', s) /\ ~InList(sessions, s)) =>
                /\ session[s].handshake = "none"
                /\ session'[s].handshake = "inprogress"
                /\ \E r \in Req : /\ req[r].session = s
                                  /\ req[r].pc = "rfcomm"
                                  /\ req'[r].pc = "obex"]_vars

\* C4 witness: a registry entry whose handshake is in progress
RegisteredDuringHandshake ==
    \E i \in 1..Len(sessions) :
        session[sessions[i]].handshake = "inprogress"

\* C5: a request whose bring-up failed at adapter resolution or at admission
\* has had its completion callback invoked exactly once, with an I/O error.
BringupFailureReported ==
    \A r \in Req :
        req[r].pc = "done" /\ req[r].failed \in {"manager", "adapter"}
            => req[r].ncb = 1 /\ req[r].err = "EIO"

\* C6: the callback of a request is invoked at most once.
CallbackAtMostOnce ==
    /\ \A r \in Req : req[r].ncb <= 1
    /\ \A t \in Trans : transfer[t].ncb <= 1

\* C7: obc_session_put on a connected session with a non-empty pending queue
\* returns -EISCONN and changes neither the queue, the registered callback,
\* the reference count nor any transfer.
PutWhilePendingRejected ==
    [][\A s \in Sess :
          (/\ last'.op = "put" /\ last'.on = s
           /\ session[s].obex # NULL /\ session[s].pending # <<>>)
          => /\ last'.ret = "-EISCONN"
             /\ session'[s].pending = session[s].pending
             /\ session'[s].callback = session[s].callback
             /\ session'[s].refcount = session[s].refcount
             /\ transfer' = transfer
             /\ conts' = conts]_vars

\* C7 witness: a put was rejected on a session with a pending transfer
PutRejected ==
    /\ last.op = "put" /\ last.ret = "-EISCONN"
    /\ session[last.on].pending # <<>>

\* C8: an admission request with session_prepare_put is issued only for the
\* transfer that is the head of the pending queue; obc_session_send on a
\* session whose queue holds another transfer issues no admission request
\* for the new transfer and, when the transfer registers and its file opens,
\* appends it and returns 0 (otherwise the queue is as before).
PutAdmissionOnlyForHead ==
    [][/\ \A k \in ContKeys :
             (k.cb = "put" /\ conts'[k] > conts[k])
             => LET q == session'[transfer'[k.t].session].pending
                IN q # <<>> /\ Head(q) = k.t
       /\ \A s \in Sess :
             (/\ last'.op = "send" /\ last'.on = s
              /\ session[s].obex # NULL /\ session[s].pending # <<>>)
             => /\ \A k \in ContKeys :
                      k.t = last'.id => conts'[k] = 0
                /\ last'.ret \in {"0", "-EINVAL", "-EFILE"}
                /\ (last'.ret = "0" =>
                       session'[s].pending
                           = Append(session[s].pending, last'.id))
                /\ (last'.ret # "0" =>
                       session'[s].pending = session[s].pending)]_vars

\* C8 witness: a send was queued behind another transfer without admission
SendQueuedBehind ==
    /\ last.op = "send" /\ last.ret = "0"
    /\ LET q == session[last.on].pending IN
          /\ Len(q) >= 2 /\ q[Len(q)] = last.id
          /\ \A k \in ContKeys : k.t = last.id => conts[k] = 0

PutAtHeadAdmitted(s) ==
    LET q == session[s].pending IN
    (q # <<>> /\ transfer[Head(q)].op \in {"put", "send"})
        => \E k \in ContKeys : k.t = Head(q) /\ k.cb = "put" /\ conts[k] > 0

\* C9: after transfer_progress reported the declared size without error, the
\* transfer is out of the pending queue and a put then at the head has its
\* admission cycle started.
SizeReachedCompletes ==
    last.op = "progress_size" =>
        /\ ~InList(session[last.on].pending, last.id)
        /\ PutAtHeadAdmitted(last.on)

\* C10: after the agent answered a transfer's request with an error, the
\* transfer is unregistered, out of the pending queue and not started, and a
\* put then at the head has its admission cycle started.
AgentErrorUnregisters ==
    last.op = "agent_error" =>
        /\ transfer[last.id].st = "unregistered"
        /\ ~InList(session[last.on].pending, last.id)
        /\ transfer[last.id].started = "no"
        /\ PutAtHeadAdmitted(last.on)

\* the steps in which a transfer ends in error
TransferErrors == {"start_error", "progress_error", "agent_error"}

\* C11: after a transfer of a READY session ended in error, the session has
\* its OBEX handle and its registry entry, and the failed transfer is out of
\* the pending queue, so that it does not make a later obc_session_put fail.
TransferErrorKeepsReady ==
    last.op \in TransferErrors =>
        /\ session[last.on].obex # NULL
        /\ InList(sessions, last.on)
        /\ ~InList(session[last.on].pending, last.id)
        /\ ~(session[last.on].pending = <<last.id>>
               /\ put_busy(session[last.on]))

ShutdownStopsBringup ==
    [][\A r \in Req :
          (/\ last.op = "shutdown" /\ req[r].session = last.on
           /\ req[r].pc \in {"manager", "adapter"})
          => req'[r].pc \in {req[r].pc, "cancelled", "done"}]_vars

\* C14: every obc_session_create call that returned a session eventually has
\* its completion callback invoked.
BringupEventuallyReported ==
    \A r \in Req : (req[r].pc = "manager") ~> (req[r].ncb > 0)

\* the session of request r has an OBEX handle
OnConnected(r) ==
    req[r].session # NoSession /\ session[req[r].session].obex # NULL

\* C15 (as stated): for a request that matched a session in the registry no
\* adapter-resolution call and no admission call is outstanding.
ReuseSendsNoCalls ==
    \A r \in Req : OnConnected(r) => req[r].pc \notin {"manager", "adapter"}

\* C15 (amended): a request resolved to an existing session is resolved to
\* a registry entry with a handle and has its adapter-resolution call sent;
\* from there it goes through the admission call only, never through
\* discovery, transport connect or OBEX CONNECT, and its idle callback
\* reports success.
ReuseSkipsConnect ==
    [][\A r \in Req :
          /\ (/\ req[r].pc = "free" /\ req'[r].pc = "manager"
              /\ session[req'[r].session].alloc = "live")
             => /\ InList(sessions, req'[r].session)
                /\ OnConnected(r)'
                /\ r \in session'[req'[r].session].pending_calls
          /\ (req[r].pc = "manager" /\ OnConnected(r))
             => req'[r].pc \in {"manager", "adapter", "done", "cancelled"}
          /\ (req[r].pc = "adapter" /\ OnConnected(r))
             => req'[r].pc \in {"adapter", "idle", "done", "cancelled"}
          /\ (req[r].pc = "idle" /\ req'[r].pc # "idle")
             => /\ req'[r].pc = "done"
                /\ req'[r].ncb = 1 /\ req'[r].err = NULL]_vars

\* C15 witness: a request resolved to a registry entry waits for its idle
\* callback after its admission was granted
ReuseAdmitted ==
    \E r \in Req : req[r].pc = "idle" /\ OnConnected(r)

\* C16: an obc_session_create request is never resolved to a session that
\* has just been shut down or whose OBEX CONNECT has failed.
NoReuseAfterTeardown ==
    [][\A r \in Req :
          (req[r].pc = "free" /\ req'[r].pc = "manager")
          => LET s == req'[r].session IN
             /\ ~(last.op = "shutdown" /\ last.on = s)
             /\ session[s].handshake # "failed"]_vars

\* C17: two requests resolved to the same session have the same owner.
OwnerSeparatesSessions ==
    \A r, q \in Req :
        (req[r].session = req[q].session /\ req[r].session # NoSession)
            => req[r].args.owner = req[q].args.owner

\* request r goes on from a granted admission in this step
AdmissionGranted(r) ==
    req[r].pc = "adapter" /\ req'[r].pc \in {"service", "rfcomm", "idle"}

\* C18 (as stated): when admission is granted for a session whose channel is
\* known, discovery is not started and the RFCOMM connect is started on that
\* channel.
KnownChannelConnectsDirectly ==
    [][\A r \in Req :
          (AdmissionGranted(r) /\ session[req[r].session].channel > 0)
          => LET s == req[r].session IN
             /\ req'[r].pc = "rfcomm"
             /\ session'[s].io = "rfcomm"
             /\ session'[s].channel = session[s].channel]_vars

\* C18 (amended): when admission is granted for a session whose channel is
\* known, discovery is not started; the RFCOMM connect is started on that
\* channel when the session has no OBEX handle, and nothing is connected
\* when it has one: the request then waits for its idle callback.
KnownChannelSkipsDiscovery ==
    [][\A r \in Req :
          (AdmissionGranted(r) /\ session[req[r].session].channel > 0)
          => LET s == req[r].session IN
             /\ req'[r].pc \in {"rfcomm", "idle"}
             /\ session'[s].channel = session[s].channel
             /\ session[s].obex = NULL =>
                    req'[r].pc = "rfcomm" /\ session'[s].io = "rfcomm"
             /\ session[s].obex # NULL =>
                    req'[r].pc = "idle" /\ session'[s].io = session[s].io]_vars

\* C18 witness: the RFCOMM connect of a request was started without
\* discovery on the channel given at creation
ConnectingOnGivenChannel ==
    \E r \in Req :
        /\ req[r].pc = "rfcomm" /\ req[r].args.channel > 0
        /\ session[req[r].session].channel = req[r].args.channel
        /\ session[req[r].session].io = "rfcomm"

\* C19: when the discovery response yields no RFCOMM channel, the request
\* ends in that step with its callback invoked once, with the error `Unable
\* to find service record'; no RFCOMM connect is started, no channel is
\* stored on the session, and the callback is not invoked again.
NoRecordReportsOnce ==
    [][\A r \in Req :
          /\ (/\ last'.op = "search_callback" /\ last'.id = r
              /\ last'.ret = "none")
             => LET s == req[r].session IN
                /\ req'[r].pc = "done"
                /\ req[r].ncb = 0 /\ req'[r].ncb = 1
                /\ req'[r].err = "Unable to find service record"
                /\ session'[s].channel = 0
                /\ session'[s].io = NULL
                /\ ~InList(sessions', s)
          /\ (req[r].pc = "done" /\ req[r].failed = "discovery")
             => req'[r].ncb = req[r].ncb /\ req'[r].pc = "done"]_vars

\* C19 witness: a discovery without RFCOMM channel has just been reported
NoRecordReported ==
    /\ last.op = "search_callback" /\ last.ret = "none"
    /\ req[last.id].pc = "done" /\ req[last.id].ncb = 1
    /\ session[last.on].channel = 0

\* C20: a session whose OBEX CONNECT has failed holds no OBEX handle and is
\* not in the registry.
FailedHandshakeReleasesHandle ==
    \A s \in Sess :
        (session[s].alloc = "live" /\ session[s].handshake = "failed")
            => session[s].obex = NULL /\ ~InList(sessions, s)

\* C21: a call of obc_session_create that returns NULL leaves no session it
\* has allocated, and leaves the registry and the reference count of every
\* session that existed before the call as they were.
CreateNullLeavesNothing ==
    [][(last'.op = "create" /\ last'.ret = "NULL") =>
          /\ sessions' = sessions
          /\ \A s \in Sess :
                /\ session[s].alloc = "none" => session'[s].alloc # "live"
                /\ session[s].alloc = "live" =>
                       /\ session'[s].alloc = "live"
                       /\ session'[s].refcount = session[s].refcount]_vars

\* C22: no call invokes a caller's callback or starts a transfer before it
\* returns: obc_session_create leaves the completion to a later step (for a
\* connected session, the idle callback connection_complete), and
\* obc_session_get, obc_session_pull, obc_session_put and obc_session_send on
\* a session with no agent, or of a transfer with no path, send no agent
\* request and leave the start of the transfer to the idle callback
\* session_request_proceed.
TransferCalls == {"get", "pull", "put", "send"}

IssuingCallDefers ==
    [][/\ last'.op \in {"create"} \cup TransferCalls =>
             /\ \A r \in Req : req'[r].ncb = req[r].ncb
             /\ \A t \in Trans : transfer'[t].ncb = transfer[t].ncb
       /\ (/\ last'.op \in TransferCalls
           /\ (session[last'.on].agent = NULL
                   \/ transfer'[last'.id].path = NULL)) =>
                 /\ \A t \in Trans : transfer'[t].started = transfer[t].started
                 /\ \A k \in ContKeys :
                        k.kind = "agent" => conts'[k] = conts[k]
       /\ \A t \in Trans :
             (/\ transfer[t].started = "no" /\ transfer'[t].started # "no"
              /\ (session[transfer[t].session].agent = NULL
                      \/ transfer[t].path = NULL)) =>
                 \E k \in ContKeys :
                     /\ k.t = t /\ k.kind = "idle"
                     /\ conts'[k] = conts[k] - 1]_vars

\* a request on the connected session was completed by its idle callback, and
\* a transfer call of a transfer with no path on a session with an agent has
\* returned with the transfer not started and its idle callback outstanding
IssuedAndDeferred ==
    /\ \E r \in Req : r # 1 /\ req[r].pc = "done" /\ req[r].ncb = 1
    /\ last.op \in TransferCalls /\ last.ret = "0"
    /\ session[last.on].agent # NULL
    /\ transfer[last.id].st = "registered"
    /\ transfer[last.id].path = NULL
    /\ transfer[last.id].started = "no"
    /\ \E k \in ContKeys : k.t = last.id /\ k.kind = "idle" /\ conts[k] > 0

\* C23: the registry holds exactly the live sessions that have an OBEX handle,
\* each at most once: a session enters it in the step that issues its OBEX
\* CONNECT and sets the handle, leaves it in the step that destroys it, and a
\* destroyed session is never in it.
RegistryIsConnectedSessions ==
    [][\A s \in Sess :
          /\ InList(sessions', s) <=>
                (session'[s].alloc = "live" /\ session'[s].obex # NULL)
          /\ Cardinality({i \in 1..Len(sessions') : sessions'[i] = s}) <= 1
          /\ (InList(sessions', s) /\ ~InList(sessions, s)) =>
                /\ session[s].alloc = "live"
                /\ session[s].obex = NULL
                /\ session'[s].handshake = "inprogress"
          /\ (InList(sessions, s) /\ ~InList(sessions', s)) =>
                /\ session[s].alloc = "live"
                /\ session'[s].alloc = "freed"
          /\ session'[s].alloc = "freed" => ~InList(sessions', s)]_vars

\* a session that completed bring-up, and so was in the registry, has been
\* destroyed and has left the registry, while another session is in it
RegisteredThenDestroyed ==
    \E r \in Req :
        /\ req[r].pc = "done" /\ req[r].failed = NULL
        /\ session[req[r].session].alloc = "freed"
        /\ ~InList(sessions, req[r].session)
        /\ sessions # <<>>

\* C24: a session has at most one agent: obc_session_set_agent on a session
\* that has an agent returns -EALREADY and leaves the agent, the owner and the
\* watch of the session as they were.
SecondAgentRefused ==
    [][\A s \in Sess :
          (/\ last'.op = "set_agent" /\ last'.on = s
           /\ session[s].agent # NULL) =>
              /\ last'.ret = "-EALREADY"
              /\ session'[s].agent = session[s].agent
              /\ session'[s].owner = session[s].owner
              /\ session'[s].watch = session[s].watch]_vars

\* AssignAgent was refused on a session that has an agent, and with it an
\* owner and a watch
AgentAlreadySet ==
    /\ last.op = "set_agent" /\ last.ret = "-EALREADY"
    /\ session[last.on].agent \in Agents
    /\ session[last.on].owner = session[last.on].agent
    /\ session[last.on].watch

\* C25: the remove hook of the driver is invoked exactly once for each
\* registration whose probe succeeded, at the shutdown or the destruction
\* that ends the registration, although the hook re-enters obc_session_unref
\* (map_remove, map_free); it is never invoked for a session without a
\* registered path, and the probe is invoked once per registration and not
\* for a session that is registered.
RemoveOncePerRegistration ==
    [][\A s \in Sess :
          /\ session'[s].path # NULL =>
                session'[s].nprobe = session'[s].nremove + 1
          /\ session'[s].path = NULL =>
                session'[s].nprobe = session'[s].nremove
          /\ session'[s].nremove # session[s].nremove =>
                /\ session[s].path # NULL /\ session'[s].path = NULL
                /\ session'[s].nremove = session[s].nremove + 1
          /\ session'[s].nprobe # session[s].nprobe =>
                /\ session[s].path = NULL /\ session'[s].path # NULL
                /\ session'[s].nprobe = session[s].nprobe + 1
          /\ (last'.op = "register" /\ last'.on = s
                 /\ session[s].path # NULL) =>
                /\ last'.ret = session[s].path
                /\ session'[s] = session[s]]_vars

\* a session was registered twice, each registration was ended by a shutdown
\* that invoked the remove hook, and the session has been destroyed
RegistrationsRemoved ==
    \E s \in Sess :
        /\ session[s].alloc = "freed"
        /\ session[s].nprobe = 2 /\ session[s].nremove = 2

\* C26: the registration path of a session is assigned by
\* obc_session_register on a session that has none, and no path value is
\* assigned twice, to the same session or to another.
PathNeverReused ==
    [][/\ \A i, j \in 1..Len(paths') : i # j => paths'[i] # paths'[j]
       /\ \A s \in Sess :
             (session'[s].path # NULL
                 /\ session'[s].path # session[s].path) =>
                /\ last'.op = "register" /\ last'.on = s
                /\ session[s].path = NULL
                /\ ~InList(paths, session'[s].path)
                /\ paths' = Append(paths, session'[s].path)
       /\ \A s1, s2 \in Sess :
             (s1 # s2 /\ session'[s1].path # NULL) =>
                session'[s1].path # session'[s2].path]_vars

\* a session that was registered, shut down and registered again has a path
\* other than its first, while another session is registered
RegisteredAgain ==
    \E s1, s2 \in Sess :
        /\ s1 # s2
        /\ session[s1].nprobe = 2 /\ session[s1].path # NULL
        /\ session[s2].path # NULL
        /\ Len(paths) = MaxPaths

\* a SetPath that enters a child: flags 0x02 with a name that is not empty
Entered ==
    /\ folder.pc # "call" /\ folder.flags = 2
    /\ folder.new_folder # NullStr /\ folder.new_folder # <<>>
    /\ folder.path # NullStr

\* C27 (as stated): entering "telecom" from "/" yields "/telecom", going up
\* one level without name from "/telecom/pb" yields "/telecom", and going up
\* one level without name from the folder that entering any child name from
\* a valid folder F yielded returns F.
SetFolderRoundTrips ==
    /\ (folder.pc # "call" /\ folder.current_folder = Slash
            /\ folder.new_folder = Telecom /\ folder.flags = 2) =>
          folder.path = Slash \o Telecom /\ folder.err = "0"
    /\ (folder.pc # "call"
            /\ folder.current_folder = Slash \o Telecom \o Slash \o Pb
            /\ folder.new_folder = <<>> /\ folder.flags = 3) =>
          folder.path = Slash \o Telecom /\ folder.err = "0"
    /\ (folder.pc = "back" /\ Entered
            /\ folder.current_folder \in ValidFolders) =>
          folder.up = folder.current_folder

\* C27 (amended): the same, for a child name that contains no separator.
SetFolderRoundTripsOneLevel ==
    /\ (folder.pc # "call" /\ folder.current_folder = Slash
            /\ folder.new_folder = Telecom /\ folder.flags = 2) =>
          folder.path = Slash \o Telecom /\ folder.err = "0"
    /\ (folder.pc # "call"
            /\ folder.current_folder = Slash \o Telecom \o Slash \o Pb
            /\ folder.new_folder = <<>> /\ folder.flags = 3) =>
          folder.path = Slash \o Telecom /\ folder.err = "0"
    /\ (folder.pc = "back" /\ Entered
            /\ folder.current_folder \in ValidFolders
            /\ \A i \in 1..Len(folder.new_folder) :
                   folder.new_folder[i] # Sep) =>
          folder.up = folder.current_folder /\ folder.uperr = "0"

\* C27 witness: "pb" was entered from "/telecom" and the way up led back
EnteredAndBack ==
    /\ folder.pc = "back" /\ Entered
    /\ folder.current_folder = Slash \o Telecom
    /\ folder.new_folder = Pb
    /\ folder.path = Slash \o Telecom \o Slash \o Pb
    /\ folder.up = Slash \o Telecom

\* C28: when the path phonebook_set_folder computes for flags 0x02 or 0x03 is
\* not one of the seven valid folders, it returns no path and sets the error
\* to -ENOENT.
InvalidFolderRefused ==
    (folder.pc # "call" /\ folder.flags \in {2, 3}
        /\ folder.computed \notin ValidFolders) =>
       folder.path = NullStr /\ folder.err = "-ENOENT"

\* C28 witness: a path was computed that is no valid folder, and refused
InvalidFolderComputed ==
    /\ folder.pc = "returned" /\ folder.flags = 3
    /\ folder.computed = Slash \o Telecom \o Slash \o <<"x">>
    /\ folder.path = NullStr /\ folder.err = "-ENOENT"

\* the reference count of the session of request r
RefsOf(r) == session[req[r].session].refcount

\* C29: an obc_session_create call that matches a registry entry returns the
\* matched session and allocates none, taking one reference for the caller
\* and one for the request in flight; the replies to its two management
\* calls keep the count, and the step that runs its completion callback
\* drops the reference of the request, once: the count is then one higher
\* than before the call, and the request changes it no more except by the
\* caller's release of its own reference.
ReuseAddsOneReference ==
    [][\A r \in Req :
          LET f == session_find(World, req'[r].args) IN
          /\ (req[r].pc = "free" /\ req'[r].pc = "manager"
                 /\ f # NoSession)
             => /\ last' = [op |-> "create", on |-> f, id |-> r,
                            ret |-> "session"]
                /\ req'[r].session = f /\ req'[r].held
                /\ \A s \in Sess : session'[s].alloc = session[s].alloc
                /\ session'[f].refcount = session[f].refcount + 2
          /\ (req[r].pc \in {"manager", "adapter"} /\ OnConnected(r)
                 /\ req'[r].pc # req[r].pc
                 /\ req'[r].pc \in {"adapter", "idle"})
             => RefsOf(r)' = RefsOf(r)
          /\ (req[r].pc = "idle" /\ req'[r].pc # "idle")
             => /\ req'[r].pc = "done" /\ req'[r].ncb = 1
                /\ req'[r].held = req[r].held
                /\ RefsOf(r)' = RefsOf(r) - 1
          /\ (req[r].pc = "done" /\ req'[r] # req[r])
             => /\ req[r].held
                /\ req'[r] = [req[r] EXCEPT !.held = FALSE]
                /\ RefsOf(r)' = RefsOf(r) - 1]_vars

\* C29 witness: a request resolved to a registry entry has had its
\* completion callback run while its caller and the caller of the request
\* that created the session still hold their references: the count is 2
ReuseCompleted ==
    \E r, q \in Req :
        /\ r # q /\ req[r].session = req[q].session
        /\ req[q].pc = "done" /\ req[q].held /\ req[q].failed = NULL
        /\ req[r].pc = "done" /\ req[r].held /\ req[r].ncb = 1
        /\ req[r].failed = NULL
        /\ last = Event
        /\ session[req[r].session].handshake = "ok"
        /\ RefsOf(r) = 2

\* C30: a transfer call is accepted only on a session whose OBEX CONNECT
\* has succeeded, and a transfer call on a session without OBEX handle returns
\* -ENOTCONN, registers no transfer, sets no completion callback and sends no
\* agent request.
CallsOnlyWhenReady ==
    [][last'.op \in TransferCalls =>
          LET s == last'.on IN
          /\ last'.ret = "0" => session[s].handshake = "ok"
          /\ session[s].obex = NULL =>
                /\ last'.ret = "-ENOTCONN"
                /\ transfer' = transfer
                /\ session' = session
                /\ conts' = conts]_vars

\* the name of a SetPath is NULL or the empty string
NoName == folder.new_folder \in {NullStr, <<>>}

Outstanding(t) == {k \in ContKeys : k.t = t /\ conts[k] > 0}

\* C31: a registered transfer that has been started has no admission cycle
\* outstanding, and a transfer registered by obc_session_get or
\* obc_session_pull has no admission cycle that ends in session_prepare_put
\* and is not started with obc_transfer_put.
StartedOnceInDirection ==
    \A t \in Trans :
        transfer[t].st = "registered" =>
            /\ transfer[t].started # "no" => Outstanding(t) = {}
            /\ transfer[t].op \in {"get", "pull"} =>
                  /\ transfer[t].started # "put"
                  /\ \A k \in Outstanding(t) : k.cb = "get"

\* C32: when the completion callback of a request is invoked without an
\* error, the session of the request holds an OBEX handle whose CONNECT
\* handshake has completed with a success response.
CompletedMeansConnected ==
    [][\A r \in Req :
          (/\ req'[r].ncb > req[r].ncb /\ req'[r].err = NULL
           /\ session'[req[r].session].alloc = "live")
          => /\ session'[req[r].session].obex # NULL
             /\ session'[req[r].session].handshake = "ok"]_vars

\* C33: a destroyed session has had one ReleaseSession sent for each
\* admission the adapter granted it, and ReleaseSession is sent for no
\* session that was granted no admission.
AdmissionBalanced ==
    \A s \in Sess :
        /\ session[s].alloc = "freed" =>
              session[s].nrelease = session[s].ngrant
        /\ session[s].nrelease > 0 => session[s].ngrant > 0

\* positions of a request with a bring-up continuation outstanding: a
\* management reply, an SDP watch, an RFCOMM connect, an OBEX CONNECT or the
\* idle callback
ContinuationPending ==
    {"manager", "adapter", "service", "search", "rfcomm", "obex", "idle"}

\* C34: while a bring-up continuation of a request is outstanding, the
\* session of the request is not destroyed and its reference count is at
\* least 1 (callers release only the reference they were returned).
ContinuationKeepsSession ==
    \A r \in Req :
        req[r].pc \in ContinuationPending =>
            /\ session[req[r].session].alloc = "live"
            /\ session[req[r].session].refcount >= 1

\* C34 witness: the caller has released its reference, the session has been
\* shut down, and the reference of the outstanding continuation is the only
\* one left
OnlyContinuationHolds ==
    \E r \in Req :
        /\ req[r].pc \in {"obex", "idle"} /\ ~req[r].held
        /\ session[req[r].session].alloc = "live"
        /\ session[req[r].session].refcount = 1
        /\ last.op = "shutdown"

\* C35: a transfer call that returns the error of session_request (the
\* agent request could not be issued) leaves the pending queue of the session
\* as it was before the call and its transfer not registered.
RequestErrorUnregisters ==
    [][(last'.op \in TransferCalls /\ last'.ret = "-EAGENT") =>
          /\ session'[last'.on].pending = session[last'.on].pending
          /\ transfer'[last'.id].st # "registered"]_vars

\* the fields of a session that session_find compares with a request
MatchTuple(sv) == <<sv.src, sv.dst, sv.driver, sv.channel, sv.owner>>

\* C36: the fields session_find compares do not change while the session is
\* in the registry; in particular obc_session_set_agent leaves the owner as
\* it is.
RegistryTupleStable ==
    [][\A s \in Sess :
          (InList(sessions, s) /\ InList(sessions', s))
          => MatchTuple(session'[s]) = MatchTuple(session[s])]_vars

(* ------------------------- releasing the agent -------------------------- *)
\* obc_agent_get_name, obc_agent_get_path: the bus name and the object path
\* the agent of the session was created with
obc_agent_get_name(W, s) == W.session[s].agent

obc_agent_get_path(W, s) == W.session[s].agent_path

agent_destroy_keep(W, s) == W

\* agent_destroy: the destroy notification the session gives its agent
agent_destroy(W, s) ==
    [W EXCEPT !.session[s].agent = NULL, !.session[s].agent_path = NULL]

\* obc_agent_free: releases the agent and notifies whoever created it
obc_agent_free(W, s) == agent_destroy(W, s)

\* release_agent (ReleaseAgent), a method of the interface the session has
\* while it is registered on the bus
release_agent(s, sender, path) ==
    /\ Live(s)
    /\ session[s].path # NULL
    /\ IF session[s].agent = NULL THEN
           CommitT(World, Called("release_agent", s, 0, "0"))
       ELSE IF \/ sender # obc_agent_get_name(World, s)
               \/ path # obc_agent_get_path(World, s) THEN
           CommitT(World, Called("release_agent", s, 0, "NotAuthorized"))
       ELSE
           CommitT(obc_agent_free(World, s),
                   Called("release_agent", s, 0, "0"))

\* the object paths given to AssignAgent and ReleaseAgent
ReleasePaths == AgentPaths \cup {"/agent2"}

\* one READY session that is registered, given an agent and released by
\* its holder, with AssignAgent and ReleaseAgent from two bus names
NextAgent ==
    \/ \E s \in Sess, regok \in BOOLEAN,
          probe \in {"nomem", "noiface", "ok"} :
           obc_session_register(s, regok, probe)
    \/ \E s \in Sess : obc_session_shutdown(s)
    \/ \E r \in Req : caller_unref(r)
    \/ \E s \in Sess, n \in Agents, p \in ReleasePaths :
           obc_session_set_agent(s, n, p)
    \/ \E s \in Sess, n \in Agents, p \in ReleasePaths :
           release_agent(s, n, p)

SpecAgent == InitTransfer /\ [][NextAgent]_vars

\* C37: ReleaseAgent removes the agent of the session only when sender and
\* path are those of the agent; any other sender or path gets NotAuthorized
\* and the agent stays; without agent the call succeeds and the session is
\* unchanged; after a release that removed the agent AssignAgent is accepted.
ReleaseAgentAuthorized ==
    [][/\ \A s \in Sess, n \in Agents, p \in ReleasePaths :
             release_agent(s, n, p) =>
                 IF session[s].agent = NULL THEN
                     last'.ret = "0" /\ session' = session
                 ELSE IF n = session[s].agent /\ p = session[s].agent_path
                 THEN last'.ret = "0" /\ session'[s].agent = NULL
                 ELSE /\ last'.ret = "NotAuthorized"
                      /\ session' = session
       /\ \A s \in Sess, n \in Agents, p \in ReleasePaths :
             (/\ last.op = "release_agent" /\ last.on = s /\ last.ret = "0"
              /\ obc_session_set_agent(s, n, p)) =>
                 (last'.ret = "0" /\ session'[s].agent = n)]_vars

\* ReleaseAgent from the agent's bus name with the agent's path removed the
\* agent of a registered session
AgentReleased ==
    /\ last.op = "release_agent" /\ last.ret = "0"
    /\ Live(last.on)
    /\ session[last.on].agent = NULL
    /\ session[last.on].owner \in Agents

(* --------------------------- MAP methods -------------------------------- *)
\* the object path obc_transfer_register gives transfer t: one per transfer
transfer_path(t) == "/transfer" \o ToString(t)

\* map->msg = dbus_message_ref(message): the message of the call that
\* created transfer t
map_set_msg(W, s, t) == [W EXCEPT !.session[s].msg = t]

\* A method of the MAP interface answers with an error reply, with a reply, or
\* with NULL when the reply is left to the callback.

\* the MAP interface exists for a session map_probe has registered
MapMethod(s, t) == Live(s) /\ session[s].map /\ NextTrans(t)

\* map_get_folder_listing (GetFolderListing)
map_get_folder_listing(s, t, regok, agentok) ==
    /\ MapMethod(s, t)
    /\ LET g == obc_session_get_ret(World, s, t, "buffer_cb", regok,
                                    transfer_path(t), agentok)
       IN IF g.ret # "0"
          THEN CommitT(g.W, Called("GetFolderListing", s, t, "Failed"))
          ELSE CommitT(map_set_msg(g.W, s, t),
                       Called("GetFolderListing", s, t, "NULL"))

\* map_get_message_listing (GetMessageListing)
\*   argsok: whether the first argument is a string
map_get_message_listing(s, t, argsok, regok, agentok) ==
    /\ MapMethod(s, t)
    /\ IF ~argsok THEN
           CommitT(World,
                   Called("GetMessageListing", s, t, "InvalidArguments"))
       ELSE LET g == obc_session_get_ret(World, s, t, "buffer_cb", regok,
                                         transfer_path(t), agentok)
            IN IF g.ret # "0"
               THEN CommitT(g.W,
                            Called("GetMessageListing", s, t, "Failed"))
               ELSE CommitT(map_set_msg(g.W, s, t),
                            Called("GetMessageListing", s, t, "NULL"))

\* map_get_message (GetMessage): replies at once with the path of
\* obc_session_get_transfer
map_get_message(s, t, argsok, regok, agentok) ==
    /\ MapMethod(s, t)
    /\ IF ~argsok THEN
           CommitT(World, Called("GetMessage", s, t, "InvalidArguments"))
       ELSE LET g == obc_session_get_ret(World, s, t, NULL, regok,
                                         transfer_path(t), agentok)
            IN IF g.ret # "0"
               THEN CommitT(g.W, Called("GetMessage", s, t, "Failed"))
               ELSE LET transfer_ == obc_session_get_transfer(g.W, s)
                    IN CommitT(g.W,
                               Called("GetMessage", s, t,
                                   obc_transfer_get_path(g.W, transfer_)))

\* map_update_inbox (UpdateInbox)
map_update_inbox(s, t, regok, agentok) ==
    /\ MapMethod(s, t)
    /\ LET p == obc_session_put_ret(World, s, t, "empty_cb", regok,
                                    transfer_path(t), agentok)
       IN IF p.ret # "0"
          THEN CommitT(p.W, Called("UpdateInbox", s, t, "Failed"))
          ELSE CommitT(map_set_msg(p.W, s, t),
                       Called("UpdateInbox", s, t, "NULL"))

\* map_push_message (PushMessage)
\*   argsok: whether both arguments are strings
map_push_message(s, t, argsok, regok, agentok) ==
    /\ MapMethod(s, t)
    /\ IF ~argsok THEN
           CommitT(World, Called("PushMessage", s, t, "InvalidArguments"))
       ELSE LET p == obc_session_put_ret(World, s, t, "empty_cb", regok,
                                         transfer_path(t), agentok)
            IN IF p.ret # "0"
               THEN CommitT(p.W, Called("PushMessage", s, t, "Failed"))
               ELSE CommitT(map_set_msg(p.W, s, t),
                            Called("PushMessage", s, t, "NULL"))

\* one READY session that is registered with the MAP driver, the methods of
\* its MAP interface and the steps of the transfers they create
NextMap ==
    \/ \E s \in Sess, regok \in BOOLEAN,
          probe \in {"nomem", "noiface", "ok"} :
           obc_session_register(s, regok, probe)
    \/ \E s \in Sess, t \in Trans, regok \in BOOLEAN :
       \E agentok \in AgentReplies(s) :
           map_get_folder_listing(s, t, regok, agentok)
    \/ \E s \in Sess, t \in Trans, argsok \in BOOLEAN, regok \in BOOLEAN :
       \E agentok \in AgentReplies(s) :
           map_get_message_listing(s, t, argsok, regok, agentok)
    \/ \E s \in Sess, t \in Trans, argsok \in BOOLEAN, regok \in BOOLEAN :
       \E agentok \in AgentReplies(s) :
           map_get_message(s, t, argsok, regok, agentok)
    \/ \E s \in Sess, t \in Trans, regok \in BOOLEAN :
       \E agentok \in AgentReplies(s) :
           map_update_inbox(s, t, regok, agentok)
    \/ \E s \in Sess, t \in Trans, argsok \in BOOLEAN, regok \in BOOLEAN :
       \E agentok \in AgentReplies(s) :
           map_push_message(s, t, argsok, regok, agentok)
    \/ \E k \in ContKeys, startok \in BOOLEAN :
       \E agentok \in AgentReplies(transfer[k.t].session) :
           session_request_proceed(k, startok, agentok)
    \/ \E t \in Trans :
       \E agentok \in AgentReplies(transfer[t].session) :
           \/ \E n \in {TransferSize - 1, TransferSize} :
                  transfer_progress(t, n, FALSE, agentok)
           \/ transfer_progress(t, 0, TRUE, agentok)

SpecMap == InitTransfer /\ [][NextMap]_vars

\* C38: GetMessage replies with the path of the transfer that this call
\* created, whatever is in the pending queue of the session.
GetMessageRepliesOwnPath ==
    [][(/\ last'.op = "GetMessage"
        /\ last'.ret \notin {"InvalidArguments", "Failed"}) =>
           last'.ret = transfer'[last'.id].path]_vars

\* C39: an accepted asynchronous MAP method call is sent one reply, and it
\* reports the transfer the call created, also when a second call arrives
\* before the first has completed.
MethodCallRepliedOnce ==
    \A m \in Trans :
        /\ transfer[m].nreply <= 1
        /\ transfer[m].nreply = 1 => transfer[m].from = m

====
